---- MODULE Spec2Model ----
(***************************************************************************)
(* Model of the hours-log application's data-access module ShiftLogic      *)
(* (src/src/lib/ShiftLogic.js, the abort-signal version at lines 220-482)   *)
(* and of the storage rows it reads and writes, of the App component's     *)
(* initial load (src/src/App.jsx) and of the Dashboard's check-in and       *)
(* manual-log handlers (src/src/components/Dashboard.jsx).                  *)
(*                                                                         *)
(* Every ShiftLogic operation is an async function: a call occupies a slot *)
(* of `calls`, and each request it awaits is answered by a separate reply  *)
(* action, so calls interleave exactly at their awaits.                    *)
(***************************************************************************)
EXTENDS Integers, Sequences, FiniteSets, TLC

\* ------------------------------------------------------------------ bounds
MaxShifts == 2      \* rows the shifts table may hold
MaxLogs == 2        \* rows the manual_logs table may hold
MaxRows == 3        \* rows (shifts plus logs) handed to calculateProgress
MaxAuthEvents == 2  \* auth events received plus logins submitted in one App
MaxActions == 2     \* handler invocations one mounted Dashboard dispatches

\* ----------------------------------------------------------- small domains
Users == {"u1", "u2"}
Instants == {1, 2}                   \* the values the clock takes, in minutes
\* The admin ids approveLog and rejectLog are called with.
Approvers == {"admin-1"}
Rejecters == {"admin-2"}
Slots == {1, 2}                      \* concurrently running ShiftLogic calls

\* The arguments checkIn is called with: (userId, category, taskDescription).
CheckInInputs ==
    {<<"u1", "tutoring", "math help">>, <<"u2", "other", "new task">>}

\* The arguments submitManualLog is called with: (userId, input object).  The
\* input's status is a field a caller may smuggle in ("absent" when it does
\* not).
ManualLogInputs ==
    {<<"u1", [date |-> "2026-02-15", durationMinutes |-> 180,
              description |-> "library help", category |-> "community_service",
              status |-> "approved"]>>,
     <<"u2", [date |-> "2026-02-16", durationMinutes |-> 60,
              description |-> "x", category |-> "other", status |-> "absent"]>>}

\* The goals (in hours) calculateProgress is called with; 150 is its default.
Goals == {2, 150}

\* JavaScript null for ids and timestamps: ids and clock values start at 1.
NULL == 0

\* --------------------------------------------------------- JavaScript values
\* duration_minutes travels as a JSON value: a number, a numeric string, null,
\* or (in a hand-built row) undefined or NaN.  Numbers are exact rationals
\* num/den with den > 0 (floating-point rounding is not modelled).
JSNull == [t |-> "null", num |-> 0, den |-> 1, s |-> <<>>]
JSUndefined == [t |-> "undefined", num |-> 0, den |-> 1, s |-> <<>>]
JSNaN == [t |-> "NaN", num |-> 0, den |-> 1, s |-> <<>>]
JSNum(n) == [t |-> "number", num |-> n, den |-> 1, s |-> <<>>]
JSStr(str) == [t |-> "string", num |-> 0, den |-> 1, s |-> str]

RECURSIVE GCD(_, _)
GCD(a, b) == IF b = 0 THEN a ELSE GCD(b, a % b)

\* The number n/d (d > 0), held in lowest terms.
JSRat(n, d) ==
    LET g == GCD(IF n < 0 THEN -n ELSE n, d)
    IN  [t |-> "number", num |-> n \div g, den |-> d \div g, s |-> <<>>]

VARIABLES
    shifts,     \* the shifts table: a sequence of rows, id = index
    logs,       \* the manual_logs table: a sequence of rows, id = index
    now,        \* the clock read by new Date()
    calls,      \* Slots -> the ShiftLogic call running in that slot
    fetched,    \* what getShifts / getManualLogs / goal hand to the computation
    progress,   \* the snapshot calculateProgress computed from `fetched`
    app,        \* the state of the App component (src/src/App.jsx)
    dash        \* the state of the Dashboard component (Dashboard.jsx)

vars == <<shifts, logs, now, calls, fetched, progress, app, dash>>

\* ------------------------------------------------------- JavaScript numbers
\* Truthiness, as `&& s.duration_minutes` reads a value: 0, NaN, "", null and
\* undefined are falsy, every other number and string is truthy.
Truthy(v) ==
    CASE v.t = "number" -> v.num # 0
      [] v.t = "string" -> v.s # <<>>
      [] OTHER -> FALSE

Digits == <<"0", "1", "2", "3", "4", "5", "6", "7", "8", "9">>
IsDigit(c) == \E d \in 1..Len(Digits) : Digits[d] = c
DigitValue(c) == (CHOOSE d \in 1..Len(Digits) : Digits[d] = c) - 1

RECURSIVE Pow10(_)
Pow10(k) == IF k = 0 THEN 1 ELSE 10 * Pow10(k - 1)

\* The number of digits a string starts with.
RECURSIVE DigitRun(_)
DigitRun(str) ==
    IF str # <<>> /\ IsDigit(Head(str)) THEN 1 + DigitRun(Tail(str)) ELSE 0

\* The value of a string of digits (0 for the empty string).
RECURSIVE DigitsValue(_)
DigitsValue(str) ==
    IF str = <<>> THEN 0
    ELSE 10 * DigitsValue(SubSeq(str, 1, Len(str) - 1)) + DigitValue(str[Len(str)])

RECURSIVE TrimStart(_)
TrimStart(str) ==
    IF str # <<>> /\ Head(str) = " " THEN TrimStart(Tail(str)) ELSE str

RECURSIVE NatToString(_)
NatToString(n) ==
    IF n < 10 THEN <<Digits[n + 1]>>
    ELSE Append(NatToString(n \div 10), Digits[(n % 10) + 1])

\* String(v), the first thing parseFloat does to its argument.  The numbers a
\* row carries are whole numbers.
JSString(v) ==
    CASE v.t = "string" -> v.s
      [] v.t = "number" ->
            IF v.num < 0 THEN <<"-">> \o NatToString(-v.num) ELSE NatToString(v.num)
      [] v.t = "null" -> <<"n", "u", "l", "l">>
      [] v.t = "undefined" -> <<"u", "n", "d", "e", "f", "i", "n", "e", "d">>
      [] OTHER -> <<"N", "a", "N">>

\* parseFloat on a string: leading blanks are skipped, then the longest prefix
\* sign? digits [. digits] is read; with no digit in it the result is NaN.
\* (Exponents and "Infinity" are not read: no duration is written that way.)
ParseFloatString(str) ==
    LET t == TrimStart(str)
        signed == t # <<>> /\ Head(t) \in {"-", "+"}
        neg == t # <<>> /\ Head(t) = "-"
        body == IF signed THEN Tail(t) ELSE t
        i == DigitRun(body)
        rest == SubSeq(body, i + 1, Len(body))
        j == IF rest # <<>> /\ Head(rest) = "." THEN DigitRun(Tail(rest)) ELSE 0
        whole == DigitsValue(SubSeq(body, 1, i))
        frac == DigitsValue(SubSeq(rest, 2, j + 1))
        mag == whole * Pow10(j) + frac
    IN  IF i + j = 0 THEN JSNaN
        ELSE JSRat(IF neg THEN -mag ELSE mag, Pow10(j))

parseFloat(v) == ParseFloatString(JSString(v))

\* a + b on two numbers (NaN is contagious).
NumAdd(a, b) ==
    IF a.t # "number" \/ b.t # "number" THEN JSNaN
    ELSE JSRat(a.num * b.den + b.num * a.den, a.den * b.den)

\* sum + v where sum is a number and v the duration_minutes of a manual log,
\* a number or null (an integer column): null counts as 0, undefined gives NaN.
Plus(sum, v) ==
    CASE v.t = "number" -> NumAdd(sum, v)
      [] v.t = "null" -> sum
      [] OTHER -> JSNaN

\* a / n and a * n for a whole number n > 0.
NumDiv(a, n) == IF a.t # "number" THEN JSNaN ELSE JSRat(a.num, a.den * n)
NumMul(a, n) == IF a.t # "number" THEN JSNaN ELSE JSRat(a.num * n, a.den)

NumLE(a, b) == a.t = "number" /\ b.t = "number" /\ a.num * b.den <= b.num * a.den
NumEq(a, b) == a.t = "number" /\ b.t = "number" /\ a.num * b.den = b.num * a.den

\* Math.min(a, b).
MathMin(a, b) ==
    IF a.t # "number" \/ b.t # "number" THEN JSNaN
    ELSE IF NumLE(a, b) THEN a ELSE b

\* --------------------------------------------------------- calculateProgress
\* shifts.filter(...).reduce((sum, s) => sum + parseFloat(s.duration_minutes), 0)
\* (mutant: the status test forgotten)
CountedShiftAnyStatus(s) == Truthy(s.duration_minutes)
CountedShift(s) == s.status = "completed" /\ Truthy(s.duration_minutes)

RECURSIVE ReduceShifts(_, _)
ReduceShifts(rows, sum) ==
    IF rows = <<>> THEN sum
    ELSE ReduceShifts(Tail(rows), NumAdd(sum, parseFloat(Head(rows).duration_minutes)))

ShiftMinutes(shiftRows) ==
    ReduceShifts(SelectSeq(shiftRows, CountedShift), JSNum(0))

\* logs.filter(l => l.status === 'approved').reduce((sum, l) => sum + l.duration_minutes, 0)
\* (mutant: everything not rejected is counted)
ApprovedLogNotRejected(l) == l.status # "rejected"
ApprovedLog(l) == l.status = "approved"

RECURSIVE ReduceLogs(_, _)
ReduceLogs(rows, sum) ==
    IF rows = <<>> THEN sum
    ELSE ReduceLogs(Tail(rows), Plus(sum, Head(rows).duration_minutes))

ApprovedMinutes(logRows) ==
    ReduceLogs(SelectSeq(logRows, ApprovedLog), JSNum(0))

PendingLog(l) == l.status = "pending"

\* (mutant: the cap forgotten)
ProgressPercentUncapped(totalHours, goal) ==
    NumMul(NumDiv(totalHours, goal), 100)
\* (mutant: the percentage wraps around at 100 instead of stopping there)
ProgressPercentWrapped(totalHours, goal) ==
    LET pct == NumMul(NumDiv(totalHours, goal), 100)
    IN  IF NumLE(pct, JSNum(100)) THEN pct ELSE NumAdd(pct, JSNum(-100))
\* Math.min((totalHours / goal) * 100, 100)
ProgressPercent(totalHours, goal) ==
    MathMin(NumMul(NumDiv(totalHours, goal), 100), JSNum(100))

\* The snapshot calculateProgress returns once both fetches are in.
CalculateProgress(shiftRows, logRows, goal) ==
    LET shiftMinutes == ShiftMinutes(shiftRows)
        approvedMinutes == ApprovedMinutes(logRows)
        totalMinutes == NumAdd(shiftMinutes, approvedMinutes)
        totalHours == NumDiv(totalMinutes, 60)
    IN  [shiftHours |-> NumDiv(shiftMinutes, 60),
         approvedManualHours |-> NumDiv(approvedMinutes, 60),
         pendingLogs |-> Len(SelectSeq(logRows, PendingLog)),
         totalHours |-> totalHours,
         progressPercent |-> ProgressPercent(totalHours, goal),
         goal |-> goal]

NoFetch == [shifts |-> <<>>, logs |-> <<>>, goal |-> NULL]
NoProgress ==
    [shiftHours |-> JSUndefined, approvedManualHours |-> JSUndefined,
     pendingLogs |-> 0, totalHours |-> JSUndefined,
     progressPercent |-> JSUndefined, goal |-> NULL]

\* ------------------------------------------------------------------ errors
\* What a request to the storage collaborator can fail with.
StorageFailures == {"NetworkError", "AbortError"}

\* (mutant: the catch block replaces every error by the retry message)
QueryErrorAlways(err) == "RequestFailedRetry"
\* query()'s catch block: an AbortError is replaced by a retry message, any
\* other error is rethrown as it is.
QueryError(err) ==
    IF err = "AbortError" THEN "RequestFailedRetry" ELSE err

\* ------------------------------------------------------- manual_logs rows
\* No row (a call that carries no manual log).
NoLog ==
    [user_id |-> "-", date |-> "-", duration_minutes |-> JSNull,
     description |-> "-", category |-> "-", status |-> "-",
     reviewed_by |-> "null", reviewed_at |-> NULL]

\* (mutant: the input object is spread into the row, so its status wins)
ManualLogRowSpread(userId, input) ==
    [user_id |-> userId, date |-> input.date,
     duration_minutes |-> JSNum(input.durationMinutes),
     description |-> input.description, category |-> input.category,
     status |-> IF input.status = "absent" THEN "pending" ELSE input.status,
     reviewed_by |-> "null", reviewed_at |-> NULL]
\* The row submitManualLog inserts: the four destructured fields of the input,
\* status 'pending'; reviewed_by and reviewed_at take the column default.
ManualLogRow(userId, input) ==
    [user_id |-> userId, date |-> input.date,
     duration_minutes |-> JSNum(input.durationMinutes),
     description |-> input.description, category |-> input.category,
     status |-> "pending", reviewed_by |-> "null", reviewed_at |-> NULL]

\* (mutant: reviewed_by left out of the update)
ReviewedRowNoReviewer(row, status, adminId, reviewedAt) ==
    [row EXCEPT !.status = status, !.reviewed_at = reviewedAt]
\* (mutant: the update filtered to rows still pending, so a reviewed log keeps
\* its first review)
ReviewedRowPendingOnly(row, status, adminId, reviewedAt) ==
    IF row.status # "pending" THEN row
    ELSE [row EXCEPT !.status = status, !.reviewed_by = adminId,
                     !.reviewed_at = reviewedAt]
\* The row approveLog / rejectLog's update leaves.
ReviewedRow(row, status, adminId, reviewedAt) ==
    [row EXCEPT !.status = status, !.reviewed_by = adminId,
                !.reviewed_at = reviewedAt]

\* ------------------------------------------------------------- call slots
IdleCall ==
    [op |-> "idle", pc |-> "idle", user |-> "-", id |-> NULL, cat |-> "-",
     desc |-> "-", time |-> NULL, existing |-> NULL, body |-> NoLog,
     writes |-> 0, res |-> "-", data |-> NULL,
     \* calculateProgress: its two fetches ("pending", "ok" or the error),
     \* what they returned, the goal, and the snapshot it resolved with
     getShifts |-> "-", getManualLogs |-> "-", shiftRows |-> <<>>,
     logRows |-> <<>>, goal |-> NULL, snapshot |-> NoProgress,
     \* a read (getShifts, getManualLogs, getAllPendingLogs): the data the
     \* storage answered with and the value the call returned
     raw |-> JSUndefined, ret |-> JSUndefined,
     \* the error the storage (or the request's timer) reported to the call
     failure |-> "-"]

\* A new call takes the lowest free slot (the slots are interchangeable).
Idle(slot) ==
    /\ calls[slot].pc = "idle"
    /\ \A o \in Slots : o < slot => calls[o].pc # "idle"

\* A call that has settled: res is "ok" or the error it threw, data the id of
\* the record it returned.  Its arguments and the request it had built are
\* gone; what it read (existing) and how many rows it wrote stay on record.
Settle(call, res, data) ==
    [IdleCall EXCEPT !.op = call.op, !.pc = "done", !.res = res, !.data = data,
                     !.existing = call.existing, !.writes = call.writes]

\* A call whose awaited request failed with err: the catch block of query()
\* (of getActiveShift, of getAllPendingLogs) decides what the caller gets.
Fail(call, err) ==
    [Settle(call, QueryError(err), NULL) EXCEPT !.failure = err]

\* ------------------------------------------------------------ shifts table
\* (mutant: the .eq('status', 'active') filter left out of the select)
ActiveShiftIdsAnyStatus(userId) ==
    {i \in 1..Len(shifts) : shifts[i].user_id = userId}
ActiveShiftIds(userId) ==
    {i \in 1..Len(shifts) :
        shifts[i].user_id = userId /\ shifts[i].status = "active"}

\* .maybeSingle(): no row is data null, one row is that row, several rows are
\* an error.
MaybeSingle(ids) ==
    IF ids = {} THEN [error |-> "-", data |-> NULL]
    ELSE IF Cardinality(ids) = 1
         THEN [error |-> "-", data |-> CHOOSE i \in ids : TRUE]
         ELSE [error |-> "PGRST116", data |-> NULL]

\* .single(): exactly one row, anything else is an error.
Single(ids) ==
    IF Cardinality(ids) = 1
    THEN [error |-> "-", data |-> CHOOSE i \in ids : TRUE]
    ELSE [error |-> "PGRST116", data |-> NULL]

\* (mutant: start_time left out of the insert)
CheckInRowNoStart(userId, category, taskDescription, startTime) ==
    [user_id |-> userId, category |-> category,
     task_description |-> taskDescription, start_time |-> NULL,
     end_time |-> NULL, duration_minutes |-> JSNull, status |-> "active"]
\* (mutant: category and task_description swapped in the insert)
CheckInRowSwapped(userId, category, taskDescription, startTime) ==
    [user_id |-> userId, category |-> taskDescription,
     task_description |-> category, start_time |-> startTime,
     end_time |-> NULL, duration_minutes |-> JSNull, status |-> "active"]
\* The row checkIn inserts; end_time and duration_minutes are not sent and
\* take the column default, null.
CheckInRow(userId, category, taskDescription, startTime) ==
    [user_id |-> userId, category |-> category,
     task_description |-> taskDescription, start_time |-> startTime,
     end_time |-> NULL, duration_minutes |-> JSNull, status |-> "active"]

\* The storage trigger on shifts: a row whose end_time is set gets its
\* duration (end - start, in minutes) and status 'completed'.
ShiftTrigger(row) ==
    IF row.end_time = NULL THEN row
    ELSE [row EXCEPT !.duration_minutes = JSNum(row.end_time - row.start_time),
                     !.status = "completed"]

\* (mutant: the update filtered to rows not yet checked out, so the first
\* checkout wins)
CheckOutRowFirstWins(row, endTime) ==
    IF row.end_time # NULL THEN row
    ELSE ShiftTrigger([row EXCEPT !.end_time = endTime])
\* The row checkOut's update leaves: end_time overwritten, then the trigger.
CheckOutRow(row, endTime) ==
    ShiftTrigger([row EXCEPT !.end_time = endTime])

\* ----------------------------------------------------------------- checkIn
\* checkIn(userId, category, taskDescription) is called: it awaits
\* getActiveShift(userId).
CheckInCall(slot, userId, category, taskDescription) ==
    /\ Idle(slot)
    /\ calls' = [calls EXCEPT ![slot] =
          [IdleCall EXCEPT !.op = "checkIn", !.pc = "getActiveShift",
                           !.user = userId, !.cat = category,
                           !.desc = taskDescription]]
    /\ UNCHANGED <<shifts, logs, now, fetched, progress, app, dash>>

\* What checkIn does with the answer of getActiveShift: rethrow its error,
\* throw the conflict error when a shift came back, otherwise build the insert
\* (start_time is read from the clock here) and await it.
\* (mutant: the `if (existing) throw` forgotten)
CheckInAfterReadNoGuard(call, reply, time) ==
    IF reply.error # "-" THEN Fail(call, reply.error)
    ELSE [call EXCEPT !.existing = reply.data, !.pc = "insert", !.time = time]
CheckInAfterRead(call, reply, time) ==
    IF reply.error # "-" THEN Fail(call, reply.error)
    ELSE LET read == [call EXCEPT !.existing = reply.data]
         IN  IF read.existing # NULL
             THEN Settle(read, "ActiveShiftExists", NULL)
             ELSE [read EXCEPT !.pc = "insert", !.time = time]

\* The storage answers getActiveShift's select.
GetActiveShiftReply(slot) ==
    /\ calls[slot].op = "checkIn" /\ calls[slot].pc = "getActiveShift"
    /\ \/ \E f \in StorageFailures :
            calls' = [calls EXCEPT ![slot] = Fail(@, f)]
       \/ calls' = [calls EXCEPT ![slot] =
            CheckInAfterRead(@, MaybeSingle(ActiveShiftIds(@.user)), now)]
    /\ UNCHANGED <<shifts, logs, now, fetched, progress, app, dash>>

\* The storage answers checkIn's insert: the row is appended and returned.
InsertShiftReply(slot) ==
    /\ calls[slot].op = "checkIn" /\ calls[slot].pc = "insert"
    /\ \/ /\ \E f \in StorageFailures :
               calls' = [calls EXCEPT ![slot] = Fail(@, f)]
          /\ UNCHANGED shifts
       \/ /\ Len(shifts) < MaxShifts
          /\ shifts' = Append(shifts,
                CheckInRow(calls[slot].user, calls[slot].cat,
                           calls[slot].desc, calls[slot].time))
          /\ calls' = [calls EXCEPT ![slot] =
                Settle([@ EXCEPT !.writes = @ + 1], "ok", Len(shifts) + 1)]
    /\ UNCHANGED <<logs, now, fetched, progress, app, dash>>

\* ---------------------------------------------------------------- checkOut
\* checkOut(shiftId) is called with the id of a shift the caller was shown:
\* end_time is read from the clock while the update is built.
CheckOutCall(slot, shiftId) ==
    /\ Idle(slot)
    /\ shiftId \in 1..Len(shifts)
    /\ calls' = [calls EXCEPT ![slot] =
          [IdleCall EXCEPT !.op = "checkOut", !.pc = "update",
                           !.id = shiftId, !.time = now]]
    /\ UNCHANGED <<shifts, logs, now, fetched, progress, app, dash>>

\* The storage answers checkOut's update of the rows with id = shiftId.
UpdateShiftReply(slot) ==
    /\ calls[slot].op = "checkOut" /\ calls[slot].pc = "update"
    /\ \/ /\ \E f \in StorageFailures :
               calls' = [calls EXCEPT ![slot] = Fail(@, f)]
          /\ UNCHANGED shifts
       \/ LET reply == Single({i \in 1..Len(shifts) : i = calls[slot].id})
          IN  IF reply.error # "-"
              THEN /\ calls' = [calls EXCEPT ![slot] = Fail(@, reply.error)]
                   /\ UNCHANGED shifts
              ELSE /\ shifts' = [shifts EXCEPT ![reply.data] =
                                    CheckOutRow(@, calls[slot].time)]
                   /\ calls' = [calls EXCEPT ![slot] =
                         Settle([@ EXCEPT !.writes = @ + 1], "ok", reply.data)]
    /\ UNCHANGED <<logs, now, fetched, progress, app, dash>>

\* --------------------------------------------------------- submitManualLog
\* submitManualLog(userId, input) is called: the insert is built and awaited.
SubmitManualLogCall(slot, userId, input) ==
    /\ Idle(slot)
    /\ calls' = [calls EXCEPT ![slot] =
          [IdleCall EXCEPT !.op = "submitManualLog", !.pc = "insert",
                           !.user = userId,
                           !.body = ManualLogRow(userId, input)]]
    /\ UNCHANGED <<shifts, logs, now, fetched, progress, app, dash>>

\* The storage answers submitManualLog's insert.
InsertLogReply(slot) ==
    /\ calls[slot].op = "submitManualLog" /\ calls[slot].pc = "insert"
    /\ \/ /\ \E f \in StorageFailures :
               calls' = [calls EXCEPT ![slot] = Fail(@, f)]
          /\ UNCHANGED logs
       \/ /\ Len(logs) < MaxLogs
          /\ logs' = Append(logs, calls[slot].body)
          /\ calls' = [calls EXCEPT ![slot] =
                Settle([@ EXCEPT !.writes = @ + 1], "ok", Len(logs) + 1)]
    /\ UNCHANGED <<shifts, now, fetched, progress, app, dash>>

\* ---------------------------------------------------- approveLog, rejectLog
\* approveLog(logId, adminId) is called for a log the admin panel lists:
\* reviewed_at is read from the clock while the update is built.
ApproveLogCall(slot, logId, adminId) ==
    /\ Idle(slot)
    /\ logId \in 1..Len(logs)
    /\ calls' = [calls EXCEPT ![slot] =
          [IdleCall EXCEPT !.op = "approveLog", !.pc = "update", !.id = logId,
                           !.user = adminId, !.time = now]]
    /\ UNCHANGED <<shifts, logs, now, fetched, progress, app, dash>>

\* rejectLog(logId, adminId) is called likewise.
RejectLogCall(slot, logId, adminId) ==
    /\ Idle(slot)
    /\ logId \in 1..Len(logs)
    /\ calls' = [calls EXCEPT ![slot] =
          [IdleCall EXCEPT !.op = "rejectLog", !.pc = "update", !.id = logId,
                           !.user = adminId, !.time = now]]
    /\ UNCHANGED <<shifts, logs, now, fetched, progress, app, dash>>

\* The status an update of approveLog / rejectLog writes.
ReviewStatus(op) == IF op = "approveLog" THEN "approved" ELSE "rejected"

\* The storage answers the update of the rows with id = logId.
UpdateLogReply(slot) ==
    /\ calls[slot].op \in {"approveLog", "rejectLog"} /\ calls[slot].pc = "update"
    /\ \/ /\ \E f \in StorageFailures :
               calls' = [calls EXCEPT ![slot] = Fail(@, f)]
          /\ UNCHANGED logs
       \/ LET reply == Single({i \in 1..Len(logs) : i = calls[slot].id})
          IN  IF reply.error # "-"
              THEN /\ calls' = [calls EXCEPT ![slot] = Fail(@, reply.error)]
                   /\ UNCHANGED logs
              ELSE /\ logs' = [logs EXCEPT ![reply.data] =
                        ReviewedRow(@, ReviewStatus(calls[slot].op),
                                    calls[slot].user, calls[slot].time)]
                   /\ calls' = [calls EXCEPT ![slot] =
                         Settle([@ EXCEPT !.writes = @ + 1], "ok", reply.data)]
    /\ UNCHANGED <<shifts, now, fetched, progress, app, dash>>

\* -------------------------------------------------------- calculateProgress
\* The ids of S in descending order of key[id] (equal keys in id order).
SortedDesc(S, key) ==
    CHOOSE seq \in [1..Cardinality(S) -> S] :
        \A i, j \in 1..Cardinality(S) :
            i < j => \/ key[seq[i]] > key[seq[j]]
                     \/ key[seq[i]] = key[seq[j]] /\ seq[i] < seq[j]

\* getShifts(userId): the user's shifts, latest start_time first; `data || []`.
GetShifts(userId) ==
    LET ids == {i \in 1..Len(shifts) : shifts[i].user_id = userId}
        StartTime == [i \in ids |-> shifts[i].start_time]
        order == SortedDesc(ids, StartTime)
    IN  [k \in 1..Len(order) |-> shifts[order[k]]]

\* getManualLogs(userId): the user's logs, latest created_at first.  The
\* storage stamps created_at at insertion, so that is descending id order.
GetManualLogs(userId) ==
    LET ids == {i \in 1..Len(logs) : logs[i].user_id = userId}
        CreatedAt == [i \in ids |-> i]
        order == SortedDesc(ids, CreatedAt)
    IN  [k \in 1..Len(order) |-> logs[order[k]]]

\* calculateProgress settles: it throws res, or resolves with the snapshot.
SettleProgress(call, res, snapshot) ==
    [call EXCEPT !.pc = "done", !.res = res, !.snapshot = snapshot]

FailedFetches(call) ==
    {f \in {call.getShifts, call.getManualLogs} : f \notin {"-", "pending", "ok"}}

\* (mutant: Promise.allSettled with `[]` standing in for a failed fetch)
PromiseAllSettled(call) ==
    IF call.pc # "fetching" \/ "pending" \in {call.getShifts, call.getManualLogs}
    THEN call
    ELSE SettleProgress(call, "ok",
            CalculateProgress(call.shiftRows, call.logRows, call.goal))
\* await Promise.all([getShifts, getManualLogs]) after one of the two has
\* answered: the first rejection rejects the whole call, two results resolve
\* it; an answer that arrives after the call was rejected changes nothing.
PromiseAll(call) ==
    IF call.pc # "fetching" THEN call
    ELSE IF FailedFetches(call) # {}
         THEN SettleProgress(call, CHOOSE e \in FailedFetches(call) : TRUE, NoProgress)
         ELSE IF call.getShifts = "ok" /\ call.getManualLogs = "ok"
              THEN SettleProgress(call, "ok",
                      CalculateProgress(call.shiftRows, call.logRows, call.goal))
              ELSE call

\* calculateProgress(userId, goal) is called: both fetches are started.
CalculateProgressCall(slot, userId, goal) ==
    /\ Idle(slot)
    /\ calls' = [calls EXCEPT ![slot] =
          [IdleCall EXCEPT !.op = "calculateProgress", !.pc = "fetching",
                           !.user = userId, !.goal = goal,
                           !.getShifts = "pending", !.getManualLogs = "pending"]]
    /\ UNCHANGED <<shifts, logs, now, fetched, progress, app, dash>>

\* The storage answers getShifts' select.
GetShiftsReply(slot) ==
    /\ calls[slot].op = "calculateProgress" /\ calls[slot].getShifts = "pending"
    /\ \/ \E f \in StorageFailures :
            calls' = [calls EXCEPT ![slot] =
                PromiseAll([@ EXCEPT !.getShifts = QueryError(f),
                                     !.failure = IF @ = "-" THEN f ELSE @])]
       \/ calls' = [calls EXCEPT ![slot] =
            PromiseAll([@ EXCEPT !.getShifts = "ok",
                                 !.shiftRows = GetShifts(calls[slot].user)])]
    /\ UNCHANGED <<shifts, logs, now, fetched, progress, app, dash>>

\* The storage answers getManualLogs' select.
GetManualLogsReply(slot) ==
    /\ calls[slot].op = "calculateProgress" /\ calls[slot].getManualLogs = "pending"
    /\ \/ \E f \in StorageFailures :
            calls' = [calls EXCEPT ![slot] =
                PromiseAll([@ EXCEPT !.getManualLogs = QueryError(f),
                                     !.failure = IF @ = "-" THEN f ELSE @])]
       \/ calls' = [calls EXCEPT ![slot] =
            PromiseAll([@ EXCEPT !.getManualLogs = "ok",
                                 !.logRows = GetManualLogs(calls[slot].user)])]
    /\ UNCHANGED <<shifts, logs, now, fetched, progress, app, dash>>

\* -------------------------------------------------------------------- reads
\* What a select of many rows hands back as `data`: an array of rows, or (a
\* collaborator that found nothing to report) null or undefined.
JSArray(rows) == [t |-> "array", rows |-> rows]
ResultNull == [t |-> "null", rows |-> <<>>]
ResultUndefined == [t |-> "undefined", rows |-> <<>>]

\* (mutant: `return data;` without the default)
OrEmptyMissing(data) == data
\* `data || []`: null and undefined are falsy, every array is truthy.
OrEmpty(data) ==
    IF data.t \in {"null", "undefined"} THEN JSArray(<<>>) ELSE data

\* profiles ( full_name ) as the join of getAllPendingLogs embeds it: u2's
\* profile carries no name.
FullName(userId) == IF userId = "u1" THEN "Student One" ELSE "null"

\* The rows getAllPendingLogs selects: the pending logs, oldest first, each
\* with its owner's profile embedded.
PendingLogRows ==
    LET ids == {i \in 1..Len(logs) : logs[i].status = "pending"}
        order == SortedDesc(ids, [i \in ids |-> 0 - i])
    IN  [k \in 1..Len(order) |->
            [log |-> logs[order[k]],
             profiles |-> FullName(logs[order[k]].user_id)]]

\* log => ({ ...log, user_name: log.profiles?.full_name || <unknown> })
WithUserName(row) ==
    [log |-> row.log, profiles |-> row.profiles,
     user_name |-> IF row.profiles = "null" THEN "unknown" ELSE row.profiles]

\* The data the storage may answer a read with.
SelectResults(call) ==
    {ResultNull, ResultUndefined,
     JSArray(CASE call.op = "getShifts" -> GetShifts(call.user)
               [] call.op = "getManualLogs" -> GetManualLogs(call.user)
               [] OTHER -> PendingLogRows)}

\* What the read does with `data`: getShifts and getManualLogs return
\* `data || []`, getAllPendingLogs maps `(data || [])`; mapping a value that
\* is no array throws.
ReadReturn(op, data) ==
    LET d == OrEmpty(data)
    IN  IF op # "getAllPendingLogs" THEN [res |-> "ok", ret |-> d]
        ELSE IF d.t # "array" THEN [res |-> "TypeError", ret |-> JSUndefined]
        ELSE [res |-> "ok",
              ret |-> JSArray([k \in 1..Len(d.rows) |-> WithUserName(d.rows[k])])]

\* getShifts(userId) / getManualLogs(userId) / getAllPendingLogs() is called.
GetShiftsCall(slot, userId) ==
    /\ Idle(slot)
    /\ calls' = [calls EXCEPT ![slot] =
          [IdleCall EXCEPT !.op = "getShifts", !.pc = "select", !.user = userId]]
    /\ UNCHANGED <<shifts, logs, now, fetched, progress, app, dash>>

GetManualLogsCall(slot, userId) ==
    /\ Idle(slot)
    /\ calls' = [calls EXCEPT ![slot] =
          [IdleCall EXCEPT !.op = "getManualLogs", !.pc = "select",
                           !.user = userId]]
    /\ UNCHANGED <<shifts, logs, now, fetched, progress, app, dash>>

GetAllPendingLogsCall(slot) ==
    /\ Idle(slot)
    /\ calls' = [calls EXCEPT ![slot] =
          [IdleCall EXCEPT !.op = "getAllPendingLogs", !.pc = "select"]]
    /\ UNCHANGED <<shifts, logs, now, fetched, progress, app, dash>>

\* The storage answers the select of a read.
SelectReply(slot) ==
    /\ calls[slot].op \in {"getShifts", "getManualLogs", "getAllPendingLogs"}
    /\ calls[slot].pc = "select"
    /\ \/ \E f \in StorageFailures :
            calls' = [calls EXCEPT ![slot] = Fail(@, f)]
       \/ \E data \in SelectResults(calls[slot]) :
            LET out == ReadReturn(calls[slot].op, data)
            IN  calls' = [calls EXCEPT ![slot] =
                    [Settle(@, out.res, NULL) EXCEPT !.raw = data,
                                                      !.ret = out.ret]]
    /\ UNCHANGED <<shifts, logs, now, fetched, progress, app, dash>>

\* ----------------------------------------------------------------- timeout
\* The requests a call is awaiting.
PendingRequests(call) ==
    IF call.op = "calculateProgress"
    THEN {r \in {"getShifts", "getManualLogs"} : call[r] = "pending"}
    ELSE IF call.pc \in {"getActiveShift", "insert", "update", "select"}
         THEN {call.pc}
         ELSE {}

\* (mutant: getActiveShift, which does not go through query(), sent without
\* an abort signal)
TimedRequestsQueryOnly(call) == PendingRequests(call) \ {"getActiveShift"}
\* The awaited requests that carry the signal of a withTimeout() timer: every
\* request is built with one.
TimedRequests(call) == PendingRequests(call)

\* The 8-second timer of a pending request fires: the request is aborted and
\* the call's catch block gets the AbortError.
RequestTimeout(slot, r) ==
    /\ r \in TimedRequests(calls[slot])
    /\ calls' = [calls EXCEPT ![slot] =
          IF @.op = "calculateProgress"
          THEN PromiseAll([@ EXCEPT ![r] = QueryError("AbortError"),
                                    !.failure = IF @ = "-" THEN "AbortError" ELSE @])
          ELSE Fail(@, "AbortError")]
    /\ UNCHANGED <<shifts, logs, now, fetched, progress, app, dash>>

\* ------------------------------------------------------------- components
\* The App component when it mounts: loading, no session, no profile, the
\* `resolved` ref false, fetchVersion 0, the safety timer armed and no auth
\* listener invocation running.
AppMounted ==
    [loading |-> TRUE, session |-> "null", profile |-> "null", error |-> "null",
     resolved |-> FALSE, fetchVersion |-> 0, safetyTimer |-> "armed",
     handlers |-> {}]

\* The Dashboard component when it mounts (the fields its handlers read or
\* write): nothing typed, category 'tutoring', not busy, no active shift
\* (activeShiftId is the id of activeShift when there is one), no toast, the
\* skeleton shown (initialLoad) while the loadData() of the mount effect is
\* awaited, and no ShiftLogic call awaited by a handler.  `awaiting` holds
\* the handler invocations that are at an await, with the call slot they use;
\* `started` counts the invocations that went as far as a ShiftLogic call
\* (at most MaxActions of them).
DashboardMounted ==
    [mounted |-> TRUE, started |-> 0, desc |-> <<>>, category |-> "tutoring", busy |-> FALSE,
     activeShift |-> "null", activeShiftId |-> NULL, toast |-> "null",
     initialLoad |-> TRUE,
     manualForm |-> [date |-> <<>>, hours |-> <<>>, minutes |-> <<>>,
                     description |-> <<>>, category |-> "other"],
     awaiting |-> {[name |-> "mount", pc |-> "loadData", slot |-> NULL,
                    getActiveShift |-> "pending", active |-> NULL,
                    others |-> "pending"]}]

\* No Dashboard is rendered: nothing is shown and nothing is awaited, so that
\* no handler of the Dashboard can start or resume.
NoDashboard == [DashboardMounted EXCEPT !.mounted = FALSE, !.awaiting = {}]

\* ------------------------------------------------------------ environment
\* The caller has taken the result (or the error) of a settled call.
Return(slot) ==
    /\ calls[slot].pc = "done"
    /\ \A h \in dash.awaiting : h.slot # slot
    /\ calls' = [calls EXCEPT ![slot] = IdleCall]
    /\ UNCHANGED <<shifts, logs, now, fetched, progress, app, dash>>

\* Time passes.
Tick ==
    /\ now + 1 \in Instants
    /\ now' = now + 1
    /\ UNCHANGED <<shifts, logs, calls, fetched, progress, app, dash>>

Init ==
    /\ shifts = <<>>
    /\ logs = <<>>
    /\ now = 1
    /\ calls = [s \in Slots |-> IdleCall]
    /\ fetched = NoFetch
    /\ progress = NoProgress
    /\ app = AppMounted
    /\ dash = NoDashboard

\* --------------------------------------------- shift lifecycle specification
NextShifts ==
    \/ \E slot \in Slots, in \in CheckInInputs :
          CheckInCall(slot, in[1], in[2], in[3])
    \/ \E slot \in Slots : GetActiveShiftReply(slot)
    \/ \E slot \in Slots : InsertShiftReply(slot)
    \/ \E slot \in Slots, id \in 1..MaxShifts : CheckOutCall(slot, id)
    \/ \E slot \in Slots : UpdateShiftReply(slot)
    \/ \E slot \in Slots : Return(slot)
    \/ Tick

SpecShifts == Init /\ [][NextShifts]_vars

\* ------------------------------------------- serial check-in specification
\* The user a running call works for: the userId of a checkIn, the owner of
\* the shift a checkOut closes.
CallUser(call) ==
    CASE call.pc \in {"idle", "done"} -> "-"
      [] call.op = "checkIn" -> call.user
      [] call.op = "checkOut" -> shifts[call.id].user_id
      [] OTHER -> "-"

\* No checkIn or checkOut for userId is running.
Serial(userId) == \A slot \in Slots : CallUser(calls[slot]) # userId

\* The shift lifecycle with each user's checkIn and checkOut calls run one at
\* a time (calls of different users still overlap).
NextSerial ==
    \/ \E slot \in Slots, in \in CheckInInputs :
          Serial(in[1]) /\ CheckInCall(slot, in[1], in[2], in[3])
    \/ \E slot \in Slots : GetActiveShiftReply(slot)
    \/ \E slot \in Slots : InsertShiftReply(slot)
    \/ \E slot \in Slots, id \in 1..MaxShifts :
          /\ id \in 1..Len(shifts)
          /\ Serial(shifts[id].user_id)
          /\ CheckOutCall(slot, id)
    \/ \E slot \in Slots : UpdateShiftReply(slot)
    \/ \E slot \in Slots : Return(slot)
    \/ Tick

SpecSerial == Init /\ [][NextSerial]_vars

\* ---------------------------------------- manual-log lifecycle specification
NextLogs ==
    \/ \E slot \in Slots, in \in ManualLogInputs :
          SubmitManualLogCall(slot, in[1], in[2])
    \/ \E slot \in Slots : InsertLogReply(slot)
    \/ \E slot \in Slots, id \in 1..MaxLogs, a \in Approvers :
          ApproveLogCall(slot, id, a)
    \/ \E slot \in Slots, id \in 1..MaxLogs, a \in Rejecters :
          RejectLogCall(slot, id, a)
    \/ \E slot \in Slots : UpdateLogReply(slot)
    \/ \E slot \in Slots : Return(slot)
    \/ Tick

SpecLogs == Init /\ [][NextLogs]_vars

\* ------------------------------------------ progress snapshot specification
\* calculateProgress calls against a storage that holds a completed and an
\* active shift and an approved and a pending log (a state the lifecycle
\* operations above lead to).
StoredShifts ==
    <<CheckOutRow(CheckInRow("u1", "tutoring", "math help", 1), 2),
      CheckInRow("u2", "other", "new task", 2)>>
StoredLogs ==
    <<ReviewedRow(ManualLogRow("u1",
          [date |-> "2026-02-15", durationMinutes |-> 180,
           description |-> "library help", category |-> "community_service",
           status |-> "approved"]), "approved", "admin-1", 2),
      ManualLogRow("u2",
          [date |-> "2026-02-16", durationMinutes |-> 60,
           description |-> "x", category |-> "other", status |-> "absent"])>>

InitSnapshot ==
    /\ shifts = StoredShifts
    /\ logs = StoredLogs
    /\ now = 2
    /\ calls = [s \in Slots |-> IdleCall]
    /\ fetched = NoFetch
    /\ progress = NoProgress
    /\ app = AppMounted
    /\ dash = NoDashboard

NextSnapshot ==
    \/ \E slot \in Slots, u \in Users, g \in Goals :
          CalculateProgressCall(slot, u, g)
    \/ \E slot \in Slots : GetShiftsReply(slot)
    \/ \E slot \in Slots : GetManualLogsReply(slot)
    \/ \E slot \in Slots : Return(slot)

SpecSnapshot == InitSnapshot /\ [][NextSnapshot]_vars

\* The whole module: every operation, from the empty storage.
\* ------------------------------------------------------ reads specification
\* Reads against an empty storage and against the storage above.
InitReads ==
    /\ shifts \in {<<>>, StoredShifts}
    /\ logs \in {<<>>, StoredLogs}
    /\ now = 1
    /\ calls = [s \in Slots |-> IdleCall]
    /\ fetched = NoFetch
    /\ progress = NoProgress
    /\ app = AppMounted
    /\ dash = NoDashboard

NextReads ==
    \/ \E slot \in Slots, u \in Users : GetShiftsCall(slot, u)
    \/ \E slot \in Slots, u \in Users : GetManualLogsCall(slot, u)
    \/ \E slot \in Slots : GetAllPendingLogsCall(slot)
    \/ \E slot \in Slots : SelectReply(slot)
    \/ \E slot \in Slots : Return(slot)

SpecReads == InitReads /\ [][NextReads]_vars

\* ------------------------------------------------- operations specification
\* Every ShiftLogic operation, as one signed-in student and the admins call
\* them, against a storage that may answer, fail or stay silent; only the
\* timers are sure to fire.
Requests == {"getActiveShift", "insert", "update", "select", "getShifts",
             "getManualLogs"}

\* The calls of one signed-in student (the first of Users in the inputs).
Student(inputs) == {in \in inputs : in[1] = "u1"}

\* The calls run one at a time: each takes the first slot.
OneAtATime == {slot \in Slots : \A o \in Slots : slot <= o}

NextOps ==
    \/ \E slot \in OneAtATime, in \in Student(CheckInInputs) :
          CheckInCall(slot, in[1], in[2], in[3])
    \/ \E slot \in OneAtATime : GetActiveShiftReply(slot)
    \/ \E slot \in OneAtATime : InsertShiftReply(slot)
    \/ \E slot \in OneAtATime, id \in 1..MaxShifts : CheckOutCall(slot, id)
    \/ \E slot \in OneAtATime : UpdateShiftReply(slot)
    \/ \E slot \in OneAtATime, in \in Student(ManualLogInputs) :
          SubmitManualLogCall(slot, in[1], in[2])
    \/ \E slot \in OneAtATime : InsertLogReply(slot)
    \/ \E slot \in OneAtATime, id \in 1..MaxLogs, a \in Approvers :
          ApproveLogCall(slot, id, a)
    \/ \E slot \in OneAtATime, id \in 1..MaxLogs, a \in Rejecters :
          RejectLogCall(slot, id, a)
    \/ \E slot \in OneAtATime : UpdateLogReply(slot)
    \/ \E slot \in OneAtATime, u \in {in[1] : in \in Student(CheckInInputs)} : GetShiftsCall(slot, u)
    \/ \E slot \in OneAtATime, u \in {in[1] : in \in Student(CheckInInputs)} : GetManualLogsCall(slot, u)
    \/ \E slot \in OneAtATime : GetAllPendingLogsCall(slot)
    \/ \E slot \in OneAtATime : SelectReply(slot)
    \/ \E slot \in OneAtATime, u \in {in[1] : in \in Student(CheckInInputs)}, g \in Goals :
          CalculateProgressCall(slot, u, g)
    \/ \E slot \in OneAtATime : GetShiftsReply(slot)
    \/ \E slot \in OneAtATime : GetManualLogsReply(slot)
    \/ \E slot \in OneAtATime, r \in Requests : RequestTimeout(slot, r)
    \/ \E slot \in OneAtATime : Return(slot)

SpecOps ==
    /\ Init
    /\ [][NextOps]_vars
    /\ \A slot \in OneAtATime :
          WF_vars(\E r \in Requests : RequestTimeout(slot, r))

\* --------------------------------------------------- review specification
\* The snapshot a calculateProgress(userId, goal) call returns when both of
\* its fetches read the tables as they are now.
Snapshot(userId, goal) ==
    CalculateProgress(GetShifts(userId), GetManualLogs(userId), goal)

\* Logs are submitted and reviewed while the shifts table holds a completed
\* shift of u1 and an active shift of u2.
InitReview ==
    /\ shifts = StoredShifts
    /\ logs = <<>>
    /\ now = 2
    /\ calls = [s \in Slots |-> IdleCall]
    /\ fetched = NoFetch
    /\ progress = NoProgress
    /\ app = AppMounted
    /\ dash = NoDashboard

NextReview ==
    \/ \E slot \in Slots, in \in ManualLogInputs :
          SubmitManualLogCall(slot, in[1], in[2])
    \/ \E slot \in Slots : InsertLogReply(slot)
    \/ \E slot \in Slots, id \in 1..MaxLogs, a \in Approvers :
          ApproveLogCall(slot, id, a)
    \/ \E slot \in Slots, id \in 1..MaxLogs, a \in Rejecters :
          RejectLogCall(slot, id, a)
    \/ \E slot \in Slots : UpdateLogReply(slot)
    \/ \E slot \in Slots : Return(slot)

SpecReview == InitReview /\ [][NextReview]_vars

\* ------------------------------------------- student's-own-calls specification
\* What one student can do without an admin: checkIn, checkOut and
\* submitManualLog for themselves, and calculateProgress; no approveLog and no
\* rejectLog is ever called.
NextOwn ==
    \/ \E slot \in OneAtATime, in \in Student(CheckInInputs) :
          CheckInCall(slot, in[1], in[2], in[3])
    \/ \E slot \in OneAtATime : GetActiveShiftReply(slot)
    \/ \E slot \in OneAtATime : InsertShiftReply(slot)
    \/ \E slot \in OneAtATime, id \in 1..MaxShifts : CheckOutCall(slot, id)
    \/ \E slot \in OneAtATime : UpdateShiftReply(slot)
    \/ \E slot \in OneAtATime, in \in Student(ManualLogInputs) :
          SubmitManualLogCall(slot, in[1], in[2])
    \/ \E slot \in OneAtATime : InsertLogReply(slot)
    \/ \E slot \in OneAtATime, in \in Student(ManualLogInputs), g \in Goals :
          CalculateProgressCall(slot, in[1], g)
    \/ \E slot \in OneAtATime : GetShiftsReply(slot)
    \/ \E slot \in OneAtATime : GetManualLogsReply(slot)
    \/ \E slot \in OneAtATime : Return(slot)
    \/ Tick

SpecOwn == Init /\ [][NextOwn]_vars

\* =========================================================================
\* The App component (src/src/App.jsx)
\* =========================================================================
\* (mutant: resolve() without its setLoading(false))
ResolveKeepsLoading(a, sess, prof, err) ==
    IF a.resolved THEN a
    ELSE [a EXCEPT !.resolved = TRUE, !.session = sess, !.profile = prof,
                   !.error = err]
\* resolve(sess, prof, err): marks the initial load done, once.
Resolve(a, sess, prof, err) ==
    IF a.resolved THEN a
    ELSE [a EXCEPT !.resolved = TRUE, !.session = sess, !.profile = prof,
                   !.error = err, !.loading = FALSE]

\* The auth events the listener is called with: (event, newSession).
AuthEvents ==
    {<<"INITIAL_SESSION", "s1">>, <<"INITIAL_SESSION", "null">>,
     <<"SIGNED_IN", "s1">>, <<"SIGNED_OUT", "null">>,
     <<"TOKEN_REFRESHED", "s2">>}

\* The profile rows a fetch can bring, with their role, and what an awaited
\* supabaseFetch of the profile comes back with.
Profiles == {"p1", "pa"}
Role(prof) == IF prof = "pa" THEN "admin" ELSE "student"
ProfileFetches == Profiles \cup {"null", "throws"}

\* The positions of an invocation that awaits something.
Awaiting == {"signOutLocal", "signOutLocalUnmounted", "signIn",
             "signInUnmounted", "getSession", "fetch", "wait", "retry",
             "signOut"}

\* What App renders.
Route(a) ==
    IF a.loading THEN "Loading"
    ELSE IF a.error # "null" THEN "Error"
    ELSE IF a.session = "null" \/ a.profile = "null" THEN "Auth"
    ELSE IF Role(a.profile) = "admin" THEN "AdminPanel"
    ELSE "Dashboard"

\* The logins submitted so far.
Logins(a) == {h \in a.handlers : h.event = "RECHECK"}

\* What a state change does to the sign-in screen: when App stops rendering
\* <Auth>, the screen is unmounted; a login it is awaiting goes on (its
\* onAuthSuccess is still called) but no longer belongs to the screen that a
\* later render of <Auth> mounts.
Rendered(a) ==
    IF Route(a) = "Auth" THEN a
    ELSE [a EXCEPT !.handlers =
            {CASE h.pc = "signOutLocal" -> [h EXCEPT !.pc = "signOutLocalUnmounted"]
               [] h.pc = "signIn" -> [h EXCEPT !.pc = "signInUnmounted"]
               [] OTHER -> h :
               h \in @}]

\* What a render of App does to the Dashboard (a: App before the state
\* change, b: after it, d: the Dashboard before it): <Dashboard> is rendered
\* on the Dashboard route only; where it was rendered before it stays
\* mounted with its state, where it was not it mounts anew (its initial
\* state, and the loadData() of its mount effect awaited), and anywhere else
\* it is unmounted.  The ShiftLogic calls that the handlers of an unmounted
\* Dashboard had started go on to their end; what those handlers do
\* afterwards no longer reaches any rendered state.
DashboardFor(a, b, d) ==
    IF Route(b) # "Dashboard" THEN NoDashboard
    ELSE IF Route(a) = "Dashboard" THEN d
    ELSE DashboardMounted

\* The listener is called with an auth event: it takes the next fetchVersion
\* and runs up to its first await (fetchProfile) or to its end.  Every
\* invocation stays on record in handlers with its position.
OnAuthStateChange(event, newSession) ==
    /\ app.fetchVersion + Cardinality(Logins(app)) < MaxAuthEvents
    /\ LET myVersion == app.fetchVersion + 1
           a == [app EXCEPT !.fetchVersion = myVersion]
           at(pc) == [event |-> event, myVersion |-> myVersion, login |-> 0,
                      session |-> newSession, pc |-> pc, prof |-> "-"]
           awaiting == [a EXCEPT !.handlers = @ \cup {at("fetch")}]
           ended(b) == [b EXCEPT !.handlers = @ \cup {at("returned")}]
       IN  app' = Rendered(
             CASE event = "INITIAL_SESSION" ->
                    IF newSession # "null" THEN awaiting
                    ELSE ended(Resolve(a, "null", "null", "null"))
               [] event = "SIGNED_IN" /\ newSession # "null" -> awaiting
               [] event = "SIGNED_OUT" ->
                    ended([a EXCEPT !.session = "null", !.profile = "null",
                                    !.error = "null", !.loading = FALSE])
               [] event = "TOKEN_REFRESHED" /\ newSession # "null" ->
                    ended([a EXCEPT !.session = newSession])
               [] OTHER -> ended(a))
    /\ dash' = DashboardFor(app, app', dash)
    /\ UNCHANGED <<shifts, logs, now, calls, fetched, progress>>

\* (mutant: the `if (myVersion !== fetchVersion) return` tests left out)
AfterFetchProfileNoVersion(a, h, prof) ==
    IF h.event = "RECHECK"
    THEN IF prof = "throws" THEN a
         ELSE [a EXCEPT !.session = h.session, !.profile = prof,
                        !.error = "null", !.loading = FALSE]
    ELSE IF h.event = "INITIAL_SESSION"
         THEN IF prof = "throws"
              THEN Resolve(a, h.session, "null", "ProfileLoadError")
              ELSE Resolve(a, h.session, prof, "null")
         ELSE IF prof = "throws"
              THEN [a EXCEPT !.session = h.session, !.profile = "null",
                             !.error = "ProfileLoadError", !.loading = FALSE]
              ELSE [a EXCEPT !.session = h.session, !.profile = prof,
                             !.error = "null", !.loading = FALSE]
\* The listener resumes after `await fetchProfile(...)`, which returned prof
\* or ("throws") threw.  A stale invocation returns at once.
AfterFetchProfile(a, h, prof) ==
    IF h.event = "RECHECK"
    THEN IF prof = "throws" THEN a
         ELSE [a EXCEPT !.session = h.session, !.profile = prof,
                        !.error = "null", !.loading = FALSE]
    ELSE IF h.myVersion # a.fetchVersion THEN a
    ELSE IF h.event = "INITIAL_SESSION"
         THEN IF prof = "throws"
              THEN Resolve(a, h.session, "null", "ProfileLoadError")
              ELSE Resolve(a, h.session, prof, "null")
         ELSE IF prof = "throws"
              THEN [a EXCEPT !.session = h.session, !.profile = "null",
                             !.error = "ProfileLoadError", !.loading = FALSE]
              ELSE [a EXCEPT !.session = h.session, !.profile = prof,
                             !.error = "null", !.loading = FALSE]

\* A login that is over stays on record with its number only.
Over(h) == [h EXCEPT !.pc = "returned", !.session = "-"]

\* One step of fetchProfile inside a listener invocation or inside
\* recheckSession: the first fetch
\* answers (a missing profile leads to the 1500 ms wait), the wait ends, or
\* the retry answers (a profile still missing throws).  When fetchProfile
\* has returned or thrown, the invocation runs to its end.
FetchProfileStep(h, answer) ==
    /\ h \in app.handlers /\ h.pc \in {"fetch", "wait", "retry"}
    /\ LET rest == [app EXCEPT !.handlers = @ \ {h}]
           end(prof) ==
               [AfterFetchProfile(rest, h, prof) EXCEPT !.handlers = @ \cup
                   {IF h.event = "RECHECK" THEN Over(h)
                    ELSE [h EXCEPT !.prof = prof,
                                   !.pc = IF h.myVersion # app.fetchVersion
                                          THEN "stale" ELSE "returned"]}]
       IN  app' = Rendered(
             CASE h.pc = "fetch" /\ answer = "null" ->
                    [rest EXCEPT !.handlers = @ \cup {[h EXCEPT !.pc = "wait"]}]
               [] h.pc = "wait" ->
                    [rest EXCEPT !.handlers = @ \cup {[h EXCEPT !.pc = "retry"]}]
               [] h.pc = "retry" /\ answer = "null" -> end("throws")
               [] OTHER -> end(answer))
    /\ dash' = DashboardFor(app, app', dash)
    /\ UNCHANGED <<shifts, logs, now, calls, fetched, progress>>

\* Auth.handleSubmit of the sign-in screen, in login mode, up to its first
\* await: it sets the screen's loading (the submit button is disabled while
\* it is set) and awaits the race of signOut({ scope: 'local' }) with a
\* 2-second timer.  The login is kept with the handlers, under the event
\* "RECHECK", numbered in the order of submission.
AuthHandleSubmit ==
    /\ Route(app) = "Auth"
    /\ \A h \in app.handlers : h.pc \notin {"signOutLocal", "signIn"}
    /\ app.fetchVersion + Cardinality(Logins(app)) < MaxAuthEvents
    /\ app' = [app EXCEPT !.handlers = @ \cup
                 {[event |-> "RECHECK", myVersion |-> 0,
                   login |-> Cardinality(Logins(app)) + 1,
                   session |-> "-", pc |-> "signOutLocal", prof |-> "-"]}]
    /\ UNCHANGED <<shifts, logs, now, calls, fetched, progress, dash>>

\* The race has settled (the local signOut resolved or rejected, which the
\* catch swallows, or the 2 seconds passed): handleSubmit calls
\* signInWithPassword and awaits it under the 10-second timeout.
AuthSignOutLocalSettles(h) ==
    /\ h \in app.handlers /\ h.pc \in {"signOutLocal", "signOutLocalUnmounted"}
    /\ app' = [app EXCEPT !.handlers = (@ \ {h}) \cup
                 {[h EXCEPT !.pc = IF h.pc = "signOutLocal" THEN "signIn"
                                   ELSE "signInUnmounted"]}]
    /\ UNCHANGED <<shifts, logs, now, calls, fetched, progress, dash>>

\* signInWithPassword answered with an error, threw or timed out: the
\* screen shows the error and handleSubmit is over.
AuthSignInFails(h) ==
    /\ h \in app.handlers /\ h.pc \in {"signIn", "signInUnmounted"}
    /\ app' = [app EXCEPT !.handlers = (@ \ {h}) \cup {Over(h)}]
    /\ UNCHANGED <<shifts, logs, now, calls, fetched, progress, dash>>

\* recheckSession(), called as onAuthSuccess when signInWithPassword
\* answered without error, whether or not the screen that made the login is
\* still the one rendered: it awaits supabase.auth.getSession().
RecheckSession(h) ==
    /\ h \in app.handlers /\ h.pc \in {"signIn", "signInUnmounted"}
    /\ app' = [app EXCEPT !.handlers = (@ \ {h}) \cup {[h EXCEPT !.pc = "getSession"]}]
    /\ UNCHANGED <<shifts, logs, now, calls, fetched, progress, dash>>

\* getSession() has answered inside recheckSession (answer: the session, or
\* "null", or "throws"): with a session that has a user fetchProfile is
\* awaited; with none, or when it threw (the error is only logged),
\* recheckSession is over.
GetSessionSettles(h, answer) ==
    /\ h \in app.handlers /\ h.pc = "getSession"
    /\ app' = [app EXCEPT !.handlers = (@ \ {h}) \cup
                 {IF answer \in {"null", "throws"}
                  THEN Over(h)
                  ELSE [h EXCEPT !.pc = "fetch", !.session = answer]}]
    /\ UNCHANGED <<shifts, logs, now, calls, fetched, progress, dash>>

\* The 8-second safety timer fires: unless the load was resolved, the local
\* session is dropped and the load is resolved to "signed out".
SafetyTimer ==
    /\ app.safetyTimer = "armed"
    /\ app' = [Resolve(app, "null", "null", "null") EXCEPT !.safetyTimer = "fired"]
    /\ dash' = DashboardFor(app, app', dash)
    /\ UNCHANGED <<shifts, logs, now, calls, fetched, progress>>

NextApp ==
    \/ \E e \in AuthEvents : OnAuthStateChange(e[1], e[2])
    \/ \E h \in app.handlers, answer \in ProfileFetches : FetchProfileStep(h, answer)
    \/ AuthHandleSubmit
    \/ \E h \in app.handlers : AuthSignOutLocalSettles(h)
    \/ \E h \in app.handlers : AuthSignInFails(h)
    \/ \E h \in app.handlers : RecheckSession(h)
    \/ \E h \in app.handlers, answer \in {"s1", "s2", "null", "throws"} : GetSessionSettles(h, answer)
    \/ SafetyTimer

\* The timer set at mount is cleared only at unmount, so it fires.
SpecApp == Init /\ [][NextApp]_vars /\ WF_vars(SafetyTimer)

\* =========================================================================
\* The Dashboard component (src/src/components/Dashboard.jsx)
\* =========================================================================
RECURSIVE TrimEnd(_)
TrimEnd(str) ==
    IF str # <<>> /\ str[Len(str)] = " "
    THEN TrimEnd(SubSeq(str, 1, Len(str) - 1)) ELSE str

\* String.prototype.trim (of the blanks, only the space is typed here).
Trim(str) == TrimEnd(TrimStart(str))

\* parseInt(str, 10): leading blanks skipped, an optional sign, then the
\* longest run of digits; NaN when there is none.
ParseInt(str) ==
    LET t == TrimStart(str)
        signed == t # <<>> /\ Head(t) \in {"-", "+"}
        neg == t # <<>> /\ Head(t) = "-"
        body == IF signed THEN Tail(t) ELSE t
        i == DigitRun(body)
        mag == DigitsValue(SubSeq(body, 1, i))
    IN  IF i = 0 THEN JSNaN ELSE JSNum(IF neg THEN 0 - mag ELSE mag)

\* What the description input of the check-in form may hold.
DescTexts == {<<>>, <<" ">>, <<"a">>, <<" ", "a", " ">>}

\* What the inputs of the manual form may hold.  date is nothing or a date;
\* hours and minutes are <input type="number" min="0">: the empty string or
\* a valid number that is a whole number >= 0 (".5e1" is 5); category is a
\* key of CATEGORIES, chosen in the <select>.
ManualTexts ==
    [date |-> {<<>>, <<"2", "0", "2", "6", "-", "0", "2", "-", "1", "5">>},
     hours |-> {<<>>, <<"0">>, <<"2">>, <<".", "5", "e", "1">>},
     minutes |-> {<<>>, <<"0">>, <<"3", "0">>},
     description |-> {<<>>, <<" ">>, <<" ", "x">>},
     category |-> {"other", "tutoring"}]

\* The signed-in student (profile.id).
ProfileId == "u1"

\* The texts the Dashboard sends to the storage, as the strings a stored row
\* holds (the inputs hold them character by character).
AsString(chars) ==
    CASE chars = <<>> -> ""
      [] chars = <<"a">> -> "a"
      [] chars = <<"x">> -> "x"
      [] chars = <<"2", "0", "2", "6", "-", "0", "2", "-", "1", "5">> -> "2026-02-15"

\* The handler invocation `name` that awaits at pc, with the call slot it
\* took.  One that awaits loadData() keeps what the reads loadData awaits
\* together have answered: getActiveShift (and the shift id it read), and
\* the others (getShifts, getManualLogs, calculateProgress).
At(name, pc, slot) ==
    [name |-> name, pc |-> pc, slot |-> slot,
     getActiveShift |-> IF pc = "loadData" THEN "pending" ELSE "-",
     active |-> NULL,
     others |-> IF pc = "loadData" THEN "pending" ELSE "-"]

\* <Toast onClose={() => setToast(null)}>: the toast's timers (3000 ms, then
\* 250 ms) have run out.
ToastCloses ==
    /\ ~dash.initialLoad
    /\ dash.toast # "null"
    /\ dash' = [dash EXCEPT !.toast = "null"]
    /\ UNCHANGED <<shifts, logs, now, calls, fetched, progress, app>>

\* loadData() after its await: when a read failed the catch block shows the
\* error, otherwise activeShift is set to what getActiveShift read; the
\* skeleton goes away either way (finally).
LoadData(d, failed, active) ==
    IF failed
    THEN [d EXCEPT !.toast = "LoadError", !.initialLoad = FALSE]
    ELSE [d EXCEPT !.activeShift = IF active = NULL THEN "null" ELSE "shift",
                   !.activeShiftId = active,
                   !.initialLoad = FALSE]

\* What the handler invocation h does after its `await loadData()`, up to
\* its end: the mount effect nothing, handleCheckOut and handleManualSubmit
\* show their toast and clear busy.
AfterLoadData(d, h) ==
    IF h.name = "mount" THEN d
    ELSE [d EXCEPT !.toast = IF h.name = "handleCheckOut" THEN "CheckedOut"
                                                          ELSE "ManualLogSent",
                   !.busy = FALSE]

\* One of the reads that the loadData() of h awaits with Promise.all is
\* answered: getActiveShift (which reads the shifts table now) or the last of
\* the others.  When a read fails loadData is over at once; when both parts
\* have answered it sets activeShift to what getActiveShift had read; the
\* handler then runs to its end.
LoadDataAnswer(h, part, failure) ==
    /\ h \in dash.awaiting /\ h.pc = "loadData" /\ h[part] = "pending"
    /\ LET reply == MaybeSingle(ActiveShiftIds(ProfileId))
           failed == failure # "-" \/ (part = "getActiveShift" /\ reply.error # "-")
           g == IF part = "getActiveShift"
                THEN [h EXCEPT !.getActiveShift = "ok", !.active = reply.data]
                ELSE [h EXCEPT !.others = "ok"]
       IN  IF ~failed /\ (g.getActiveShift = "pending" \/ g.others = "pending")
           THEN /\ dash' = [dash EXCEPT !.awaiting = (@ \ {h}) \cup {g}]
                /\ UNCHANGED calls
           ELSE /\ dash' = [AfterLoadData(LoadData(dash, failed, g.active), h)
                              EXCEPT !.awaiting = @ \ {h}]
                /\ calls' = IF h.slot = NULL THEN calls
                            ELSE [calls EXCEPT ![h.slot] = IdleCall]
    /\ UNCHANGED <<shifts, logs, now, fetched, progress, app>>

\* setDesc(e.target.value): typing in the description input, which the
\* check-in form shows while there is no active shift.
SetDesc(text) ==
    /\ ~dash.initialLoad
    /\ dash.activeShift = "null"
    /\ dash.desc # text
    /\ dash' = [dash EXCEPT !.desc = text]
    /\ UNCHANGED <<shifts, logs, now, calls, fetched, progress, app>>

\* A button of the category grid of the check-in form is clicked (the form
\* is rendered while no shift is shown as active): setCategory(key).
SetCategory(key) ==
    /\ ~dash.initialLoad
    /\ dash.activeShift = "null"
    /\ dash.category # key
    /\ dash' = [dash EXCEPT !.category = key]
    /\ UNCHANGED <<shifts, logs, now, calls, fetched, progress, app>>

\* (mutant: `if (!desc)` without the trim)
CheckInRefusedUntrimmed(desc) == desc = <<>>
\* `if (!desc.trim())`
CheckInRefused(desc) == Trim(desc) = <<>>

\* handleCheckIn up to its await, run by the check-in button (disabled while
\* busy) or by the Enter key in the description input: an empty description
\* is refused with a toast (no call slot is taken: the refusal is counted for
\* the first slot only), otherwise busy is set and ShiftLogic.checkIn is
\* called, in `slot`, with the trimmed description.
HandleCheckIn(slot, trigger) ==
    /\ ~dash.initialLoad
    /\ dash.activeShift = "null"
    /\ trigger = "button" => ~dash.busy
    /\ IF CheckInRefused(dash.desc)
       THEN /\ slot \in OneAtATime
            /\ dash' = [dash EXCEPT !.toast = "DescriptionRequired"]
            /\ UNCHANGED calls
       ELSE /\ Idle(slot)
            /\ dash.started < MaxActions
            /\ dash' = [dash EXCEPT
                  !.busy = TRUE, !.started = @ + 1,
                  !.awaiting = @ \cup {At("handleCheckIn", "checkIn", slot)}]
            /\ calls' = [calls EXCEPT ![slot] =
                  [IdleCall EXCEPT !.op = "checkIn", !.pc = "getActiveShift",
                                   !.user = ProfileId, !.cat = dash.category,
                                   !.desc = AsString(Trim(dash.desc))]]
    /\ UNCHANGED <<shifts, logs, now, fetched, progress, app>>

\* (mutant: setBusy(false) at the end of the try block instead of finally)
CheckInFinishedNoFinally(d, call) ==
    IF call.res = "ok"
    THEN [d EXCEPT !.activeShift = "shift", !.activeShiftId = call.data,
                   !.desc = <<>>, !.toast = "CheckedIn", !.busy = FALSE]
    ELSE [d EXCEPT !.toast = call.res]
\* handleCheckIn after its await: the shift is shown, or the error is; busy
\* is cleared in the finally block.
CheckInFinished(d, call) ==
    IF call.res = "ok"
    THEN [d EXCEPT !.activeShift = "shift", !.activeShiftId = call.data,
                   !.desc = <<>>, !.toast = "CheckedIn", !.busy = FALSE]
    ELSE [d EXCEPT !.toast = call.res, !.busy = FALSE]

\* The ShiftLogic.checkIn started in `slot` has settled and the handleCheckIn
\* that awaits it runs to its end.
CheckInSettles(slot) ==
    /\ At("handleCheckIn", "checkIn", slot) \in dash.awaiting
    /\ calls[slot].pc = "done"
    /\ dash' = [CheckInFinished(dash, calls[slot]) EXCEPT
                   !.awaiting = @ \ {At("handleCheckIn", "checkIn", slot)}]
    /\ calls' = [calls EXCEPT ![slot] = IdleCall]
    /\ UNCHANGED <<shifts, logs, now, fetched, progress, app>>

\* handleCheckOut up to its await, from the check-out button (rendered when
\* activeShift is set, disabled while busy): ShiftLogic.checkOut is started
\* for activeShift.id.
HandleCheckOut(slot) ==
    /\ ~dash.initialLoad
    /\ dash.activeShift # "null"
    /\ ~dash.busy
    /\ Idle(slot)
    /\ dash.started < MaxActions
    /\ dash' = [dash EXCEPT
          !.busy = TRUE, !.started = @ + 1,
          !.awaiting = @ \cup {At("handleCheckOut", "checkOut", slot)}]
    /\ calls' = [calls EXCEPT ![slot] =
          [IdleCall EXCEPT !.op = "checkOut", !.pc = "update",
                           !.id = dash.activeShiftId, !.time = now]]
    /\ UNCHANGED <<shifts, logs, now, fetched, progress, app>>

\* The ShiftLogic.checkOut started in `slot` has settled: activeShift is
\* cleared and loadData() awaited, or the error is shown and busy cleared.
CheckOutSettles(slot) ==
    /\ At("handleCheckOut", "checkOut", slot) \in dash.awaiting
    /\ calls[slot].pc = "done"
    /\ LET rest == dash.awaiting \ {At("handleCheckOut", "checkOut", slot)}
       IN  IF calls[slot].res = "ok"
           THEN /\ dash' = [dash EXCEPT
                      !.activeShift = "null", !.activeShiftId = NULL,
                      !.awaiting = rest \cup {At("handleCheckOut", "loadData", slot)}]
                /\ UNCHANGED calls
           ELSE /\ dash' = [dash EXCEPT !.toast = calls[slot].res,
                                        !.busy = FALSE, !.awaiting = rest]
                /\ calls' = [calls EXCEPT ![slot] = IdleCall]
    /\ UNCHANGED <<shifts, logs, now, fetched, progress, app>>

\* setManualForm(p => ({ ...p, [field]: e.target.value }))
SetManualForm(field, text) ==
    /\ ~dash.initialLoad
    /\ dash.manualForm[field] # text
    /\ dash' = [dash EXCEPT !.manualForm[field] = text]
    /\ UNCHANGED <<shifts, logs, now, calls, fetched, progress, app>>

\* totalMins of handleManualSubmit.
TotalMins(form) ==
    LET hours == IF form.hours = <<>> THEN <<"0">> ELSE form.hours
        minutes == IF form.minutes = <<>> THEN <<"0">> ELSE form.minutes
    IN  NumAdd(NumMul(ParseInt(hours), 60), ParseInt(minutes))

\* handleManualSubmit up to its await, run by the form's submit, which the
\* browser fires when the `required` date and description hold something
\* (the submit button is disabled while busy): a duration <= 0 and a blank
\* description are refused with a toast (no call slot is taken), otherwise
\* busy is set and ShiftLogic.submitManualLog is called, in `slot`.  (The
\* request body is JSON, which has no NaN: a NaN duration is sent as null.)
HandleManualSubmit(slot) ==
    /\ ~dash.initialLoad
    /\ ~dash.busy
    /\ dash.manualForm.date # <<>> /\ dash.manualForm.description # <<>>
    /\ LET totalMins == TotalMins(dash.manualForm)
       IN  IF NumLE(totalMins, JSNum(0))
           THEN /\ slot \in OneAtATime
                /\ dash' = [dash EXCEPT !.toast = "DurationInvalid"]
                /\ UNCHANGED calls
           ELSE IF Trim(dash.manualForm.description) = <<>>
           THEN /\ slot \in OneAtATime
                /\ dash' = [dash EXCEPT !.toast = "DescriptionRequired"]
                /\ UNCHANGED calls
           ELSE /\ Idle(slot)
                /\ dash.started < MaxActions
                /\ dash' = [dash EXCEPT
                      !.busy = TRUE, !.started = @ + 1,
                      !.awaiting = @ \cup
                          {At("handleManualSubmit", "submitManualLog", slot)}]
                /\ calls' = [calls EXCEPT ![slot] =
                      [IdleCall EXCEPT
                          !.op = "submitManualLog", !.pc = "insert",
                          !.user = ProfileId,
                          !.body = [ManualLogRow(ProfileId,
                              [date |-> AsString(dash.manualForm.date),
                               durationMinutes |-> 0,
                               description |->
                                   AsString(Trim(dash.manualForm.description)),
                               category |-> dash.manualForm.category])
                           EXCEPT !.duration_minutes =
                               IF totalMins.t = "number" THEN totalMins
                                                         ELSE JSNull]]]
    /\ UNCHANGED <<shifts, logs, now, fetched, progress, app>>

\* The ShiftLogic.submitManualLog started in `slot` has settled: the form is
\* reset and loadData() awaited, or the error is shown and busy cleared.
ManualSubmitSettles(slot) ==
    /\ At("handleManualSubmit", "submitManualLog", slot) \in dash.awaiting
    /\ calls[slot].pc = "done"
    /\ LET rest == dash.awaiting \ {At("handleManualSubmit", "submitManualLog", slot)}
       IN  IF calls[slot].res = "ok"
           THEN /\ dash' = [dash EXCEPT
                      !.manualForm = DashboardMounted.manualForm,
                      !.awaiting = rest \cup
                          {At("handleManualSubmit", "loadData", slot)}]
                /\ UNCHANGED calls
           ELSE /\ dash' = [dash EXCEPT !.toast = calls[slot].res,
                                        !.busy = FALSE, !.awaiting = rest]
                /\ calls' = [calls EXCEPT ![slot] = IdleCall]
    /\ UNCHANGED <<shifts, logs, now, fetched, progress, app>>

\* ---------------------------------------------------- logout specification (App.jsx)
\* handleLogout(), from the button of the error screen or the onLogout of the
\* Dashboard / AdminPanel: it awaits supabase.auth.signOut().  The Dashboard
\* has its logout button in the loaded view only (while initialLoad is set
\* it renders the skeleton, which has none).
HandleLogout ==
    /\ Route(app) \in {"Error", "Dashboard", "AdminPanel"}
    /\ Route(app) = "Dashboard" => ~dash.initialLoad
    /\ \A h \in app.handlers : h.event # "LOGOUT"
    /\ app' = [app EXCEPT !.handlers = @ \cup
                 {[event |-> "LOGOUT", myVersion |-> 0, login |-> 0, session |-> "null",
                   pc |-> "signOut", prof |-> "-"]}]
    /\ UNCHANGED <<shifts, logs, now, calls, fetched, progress, dash>>

\* signOut() has resolved or thrown (the error is only logged): session,
\* profile and error are set to null and handleLogout is over.
HandleLogoutSettles(h) ==
    /\ h \in app.handlers /\ h.event = "LOGOUT" /\ h.pc = "signOut"
    /\ app' = [app EXCEPT !.session = "null", !.profile = "null",
                          !.error = "null",
                          !.handlers = (@ \ {h}) \cup {[h EXCEPT !.pc = "returned"]}]
    /\ dash' = DashboardFor(app, app', dash)
    /\ UNCHANGED <<shifts, logs, now, calls, fetched, progress>>

\* handleLogout has completed.
LoggedOut == \E h \in app.handlers : h.event = "LOGOUT" /\ h.pc = "returned"

\* The App with one logout, after which no new sign-in takes place: once
\* handleLogout has completed the listener receives SIGNED_OUT only, no
\* login is submitted, none succeeds and getSession() brings no session.
\* What was awaited when the user logged out still answers, and the reads
\* of the Dashboard's loadData() are answered.
NextLogout ==
    \/ \E h \in dash.awaiting, part \in {"getActiveShift", "others"},
          failure \in {"-"} \cup StorageFailures : LoadDataAnswer(h, part, failure)
    \/ \E e \in AuthEvents :
          /\ LoggedOut => e[1] = "SIGNED_OUT"
          /\ OnAuthStateChange(e[1], e[2])
    \/ \E h \in app.handlers, answer \in ProfileFetches : FetchProfileStep(h, answer)
    \/ ~LoggedOut /\ AuthHandleSubmit
    \/ \E h \in app.handlers : AuthSignOutLocalSettles(h)
    \/ \E h \in app.handlers : AuthSignInFails(h)
    \/ \E h \in app.handlers : ~LoggedOut /\ RecheckSession(h)
    \/ \E h \in app.handlers, answer \in {"s1", "s2", "null", "throws"} :
          /\ LoggedOut => answer \in {"null", "throws"}
          /\ GetSessionSettles(h, answer)
    \/ SafetyTimer
    \/ HandleLogout
    \/ \E h \in app.handlers : HandleLogoutSettles(h)

SpecLogout == Init /\ [][NextLogout]_vars

\* The student is signed in (the listener got INITIAL_SESSION with session
\* s1 and the profile p1 came with the first fetch) and App has rendered
\* <Dashboard>; `table` is what the shifts table holds at that time.
InitDashboard(table) ==
    /\ shifts = table
    /\ logs = <<>>
    /\ now = 1
    /\ calls = [s \in Slots |-> IdleCall]
    /\ fetched = NoFetch
    /\ progress = NoProgress
    /\ app = [AppMounted EXCEPT
                !.loading = FALSE, !.session = "s1", !.profile = "p1",
                !.resolved = TRUE, !.fetchVersion = 1,
                !.handlers = {[event |-> "INITIAL_SESSION", myVersion |-> 1,
                               login |-> 0, session |-> "s1",
                               pc |-> "returned", prof |-> "p1"]}]
    /\ dash = DashboardMounted

\* The Dashboard of student u1 on its clock tab (check-in, check-out), its
\* ShiftLogic calls run against the tables.
NextClock ==
    \/ \E h \in dash.awaiting, part \in {"getActiveShift", "others"},
          failure \in {"-"} \cup StorageFailures : LoadDataAnswer(h, part, failure)
    \/ ToastCloses
    \/ \E text \in DescTexts : SetDesc(text)
    \/ \E key \in {"tutoring", "mentoring", "community_service",
                    "office_work", "event_support", "other"} : SetCategory(key)
    \/ \E slot \in Slots, trigger \in {"button", "enter"} : HandleCheckIn(slot, trigger)
    \/ \E slot \in Slots : GetActiveShiftReply(slot)
    \/ \E slot \in Slots : InsertShiftReply(slot)
    \/ \E slot \in Slots : CheckInSettles(slot)
    \/ \E slot \in Slots : HandleCheckOut(slot)
    \/ \E slot \in Slots : UpdateShiftReply(slot)
    \/ \E slot \in Slots : CheckOutSettles(slot)
    \/ \E slot \in Slots, r \in Requests : RequestTimeout(slot, r)

SpecClock == InitDashboard(<<>>) /\ [][NextClock]_vars

\* The Dashboard of student u1 on its manual-report tab.
NextManual ==
    \/ \E h \in dash.awaiting, part \in {"getActiveShift", "others"},
          failure \in {"-"} \cup StorageFailures : LoadDataAnswer(h, part, failure)
    \/ ToastCloses
    \/ \E field \in DOMAIN ManualTexts :
          \E text \in ManualTexts[field] : SetManualForm(field, text)
    \/ \E slot \in Slots : HandleManualSubmit(slot)
    \/ \E slot \in Slots : InsertLogReply(slot)
    \/ \E slot \in Slots : ManualSubmitSettles(slot)
    \/ \E slot \in Slots, r \in Requests : RequestTimeout(slot, r)

SpecManual == InitDashboard(<<>>) /\ [][NextManual]_vars

\* ------------------------------------ Dashboard with its timers (one page)
\* The Dashboard of student u1 with both tabs in use and one text for each
\* input.
NextPage ==
    \/ \E h \in dash.awaiting, part \in {"getActiveShift", "others"},
          failure \in {"-"} \cup StorageFailures : LoadDataAnswer(h, part, failure)
    \/ ToastCloses
    \/ SetDesc(<<"a">>)
    \/ \E key \in {"tutoring", "other"} : SetCategory(key)
    \/ \E slot \in Slots, trigger \in {"button", "enter"} : HandleCheckIn(slot, trigger)
    \/ \E slot \in Slots : GetActiveShiftReply(slot)
    \/ \E slot \in Slots : InsertShiftReply(slot)
    \/ \E slot \in Slots : CheckInSettles(slot)
    \/ \E slot \in Slots : HandleCheckOut(slot)
    \/ \E slot \in Slots : UpdateShiftReply(slot)
    \/ \E slot \in Slots : CheckOutSettles(slot)
    \/ \E text \in ManualTexts.date \ {<<>>} : SetManualForm("date", text)
    \/ SetManualForm("hours", <<"2">>)
    \/ SetManualForm("description", <<" ", "x">>)
    \/ \E key \in ManualTexts.category : SetManualForm("category", key)
    \/ \E slot \in Slots : HandleManualSubmit(slot)
    \/ \E slot \in Slots : InsertLogReply(slot)
    \/ \E slot \in Slots : ManualSubmitSettles(slot)
    \/ \E slot \in Slots, r \in Requests : RequestTimeout(slot, r)

\* The handler invocation that holds `slot` (NULL: the mount effect) takes
\* its next step: a request of the ShiftLogic call it awaits times out, the
\* settled call resumes it, or a read of its loadData() is answered.
Resumes(slot) ==
    \/ /\ slot \in Slots
       /\ \/ \E r \in Requests : RequestTimeout(slot, r)
          \/ CheckInSettles(slot)
          \/ CheckOutSettles(slot)
          \/ ManualSubmitSettles(slot)
    \/ \E h \in dash.awaiting, part \in {"getActiveShift", "others"},
          failure \in {"-"} \cup StorageFailures :
             h.slot = slot /\ LoadDataAnswer(h, part, failure)

\* The page is opened with the shifts table holding the active shift the
\* student checked in with on an earlier visit.  Every request carries its
\* 8-second timer (the reads of loadData() too), and every settled call
\* resumes the handler that awaits it.
SpecPage ==
    /\ InitDashboard(<<CheckInRow(ProfileId, "tutoring", "a", 1)>>)
    /\ [][NextPage]_vars
    /\ \A slot \in Slots \cup {NULL} : WF_vars(Resumes(slot))


Next ==
    \/ NextShifts \/ NextLogs \/ NextSnapshot \/ NextReads \/ NextOps
    \/ NextSerial \/ NextReview \/ NextOwn \/ NextApp \/ NextLogout
    \/ NextClock \/ NextManual \/ NextPage
Spec == Init /\ [][Next]_vars

\* ------------------------------------- progress computation specification
\* calculateProgress as a function of what its two fetches returned: every
\* pair of lists of at most MaxRows rows in all over these row values, and
\* every goal.
ShiftDurations ==
    {JSNum(0), JSNum(120), JSNull, JSUndefined, JSNaN,
     JSStr(<<"9", "0">>), JSStr(<<"1", ".", "5">>), JSStr(<<"0">>)}
FetchedShiftRows ==
    {[status |-> "completed", duration_minutes |-> d] : d \in ShiftDurations}
    \cup {[status |-> "active", duration_minutes |-> d] : d \in {JSNull, JSNum(120)}}
FetchedLogRows ==
    {[status |-> st, duration_minutes |-> JSNum(d)] :
        st \in {"pending", "approved", "rejected"}, d \in {60, 90}}

InitProgress ==
    /\ shifts = <<>>
    /\ logs = <<>>
    /\ now = 1
    /\ calls = [s \in Slots |-> IdleCall]
    /\ fetched \in {[shifts |-> <<>>, logs |-> <<>>, goal |-> g] : g \in Goals}
    /\ progress = NoProgress
    /\ app = AppMounted
    /\ dash = NoDashboard

\* One more row in what getShifts returned.
FetchShiftRow(row) ==
    /\ progress = NoProgress
    /\ Len(fetched.shifts) + Len(fetched.logs) < MaxRows
    /\ fetched' = [fetched EXCEPT !.shifts = Append(@, row)]
    /\ UNCHANGED <<shifts, logs, now, calls, progress, app, dash>>

\* One more row in what getManualLogs returned.
FetchLogRow(row) ==
    /\ progress = NoProgress
    /\ Len(fetched.shifts) + Len(fetched.logs) < MaxRows
    /\ fetched' = [fetched EXCEPT !.logs = Append(@, row)]
    /\ UNCHANGED <<shifts, logs, now, calls, progress, app, dash>>

\* Both lists are in: the snapshot is computed.
Compute ==
    /\ progress = NoProgress
    /\ progress' = CalculateProgress(fetched.shifts, fetched.logs, fetched.goal)
    /\ UNCHANGED <<shifts, logs, now, calls, fetched, app, dash>>

NextProgress ==
    \/ \E row \in FetchedShiftRows : FetchShiftRow(row)
    \/ \E row \in FetchedLogRows : FetchLogRow(row)
    \/ Compute

SpecProgress == InitProgress /\ [][NextProgress]_vars

\* =========================================================================
\* Properties of the shift lifecycle (SpecShifts)
\* =========================================================================

\* C1: at every moment every user owns at most one shift with status
\* 'active', whatever checkIn and checkOut calls run and however they
\* interleave.
C1_AtMostOneActive ==
    \A u \in Users : Cardinality(ActiveShiftIds(u)) <= 1

\* C2: a checkIn whose getActiveShift returned a shift throws the conflict
\* error and issues no insert: from the moment the shift is read the call is
\* settled with that error and has written no row.
C2_ConflictNoInsert ==
    \A slot \in Slots :
        calls[slot].op = "checkIn" /\ calls[slot].existing # NULL
            => /\ calls[slot].pc = "done"
               /\ calls[slot].res = "ActiveShiftExists"
               /\ calls[slot].writes = 0

\* C2 witness: a checkIn has been refused because it read a shift that is
\* still active.
C2_Witness ==
    \E slot \in Slots :
        /\ calls[slot].op = "checkIn" /\ calls[slot].pc = "done"
        /\ calls[slot].existing \in 1..Len(shifts)
        /\ shifts[calls[slot].existing].status = "active"
        /\ calls[slot].res = "ActiveShiftExists"

\* C5: a shift is created 'active' with a start time and neither end time
\* nor duration; its status changes only from 'active' to 'completed', in a
\* step where a checkOut of that shift is answered and with the end time
\* set; a completed shift stays completed and no shift is ever removed.
C5_ShiftLifecycle ==
    [][/\ Len(shifts') >= Len(shifts)
       /\ \A i \in 1..Len(shifts') :
            i > Len(shifts) =>
                /\ shifts'[i].status = "active"
                /\ shifts'[i].start_time # NULL
                /\ shifts'[i].end_time = NULL
                /\ shifts'[i].duration_minutes = JSNull
       /\ \A i \in 1..Len(shifts) :
            /\ shifts'[i].start_time = shifts[i].start_time
            /\ shifts[i].status = "completed" => shifts'[i].status = "completed"
            /\ shifts'[i].status # shifts[i].status =>
                /\ shifts[i].status = "active"
                /\ shifts'[i].status = "completed"
                /\ shifts'[i].end_time # NULL
                /\ \E slot \in Slots :
                      /\ calls[slot].op = "checkOut" /\ calls[slot].id = i
                      /\ calls[slot].pc = "update" /\ calls'[slot].pc = "done"
      ]_vars

\* C5 witness: a checkOut has returned a shift that is now completed, with
\* its end time set, next to a shift that is still active.
C5_Witness ==
    /\ \E slot \in Slots :
          /\ calls[slot].op = "checkOut" /\ calls[slot].res = "ok"
          /\ shifts[calls[slot].data].status = "completed"
          /\ shifts[calls[slot].data].end_time # NULL
          /\ shifts[calls[slot].data].duration_minutes.t = "number"
    /\ \E i \in 1..Len(shifts) :
          shifts[i].status = "active" /\ shifts[i].end_time = NULL

\* C13: a checkIn(userId, category, description) goes on to its insert only
\* when getActiveShift reported none, reading the clock at that moment; the
\* answered insert is the call's one write: it appends a shift with user_id =
\* userId, the given category and description, status 'active', start_time =
\* the clock value read during the call, and no end time or duration, and the
\* call returns that record.  A failed insert stores nothing.
C13_CheckInInsert ==
    [][\A slot \in Slots :
          /\ calls[slot].op = "checkIn" /\ calls[slot].pc = "getActiveShift"
             /\ calls'[slot].pc # "getActiveShift"
             => /\ shifts' = shifts
                /\ calls'[slot].writes = 0
                /\ calls'[slot].pc \in {"insert", "done"}
                /\ calls'[slot].pc = "insert" =>
                      /\ ActiveShiftIds(calls[slot].user) = {}
                      /\ calls'[slot].existing = NULL
                      /\ calls'[slot].time = now
                      /\ calls'[slot].user = calls[slot].user
                      /\ calls'[slot].cat = calls[slot].cat
                      /\ calls'[slot].desc = calls[slot].desc
                /\ calls'[slot].pc = "done" => calls'[slot].res # "ok"
          /\ calls[slot].op = "checkIn" /\ calls[slot].pc = "insert"
             /\ calls'[slot].pc # "insert"
             => /\ calls'[slot].pc = "done"
                /\ calls'[slot].res # "ok" => shifts' = shifts
                /\ calls'[slot].res = "ok" =>
                      /\ calls'[slot].writes = 1
                      /\ Len(shifts') = Len(shifts) + 1
                      /\ calls'[slot].data = Len(shifts')
                      /\ SubSeq(shifts', 1, Len(shifts)) = shifts
                      /\ LET row == shifts'[Len(shifts')]
                         IN  /\ row.user_id = calls[slot].user
                             /\ row.category = calls[slot].cat
                             /\ row.task_description = calls[slot].desc
                             /\ row.status = "active"
                             /\ row.start_time = calls[slot].time
                             /\ row.start_time \in Instants
                             /\ row.start_time <= now
                             /\ row.end_time = NULL
                             /\ row.duration_minutes = JSNull
      ]_vars

\* C13 witness: checkIn('u2', 'other', 'new task'), whose read at instant 2
\* reported none, has returned the shift it created.
C13_Witness ==
    \E slot \in Slots :
        /\ calls[slot].op = "checkIn" /\ calls[slot].pc = "done"
        /\ calls[slot].res = "ok" /\ calls[slot].existing = NULL
        /\ calls[slot].writes = 1
        /\ shifts[calls[slot].data] =
              [user_id |-> "u2", category |-> "other",
               task_description |-> "new task", start_time |-> 2,
               end_time |-> NULL, duration_minutes |-> JSNull,
               status |-> "active"]

\* C19: when the checkIn and checkOut calls of each user run one at a time,
\* no user ever owns two active shifts, and whenever a checkIn is about to
\* insert (its read reported none) the user still has no active shift.
C19_SerialAtMostOneActive ==
    /\ \A u \in Users : Cardinality(ActiveShiftIds(u)) <= 1
    /\ \A slot \in Slots :
          calls[slot].op = "checkIn" /\ calls[slot].pc = "insert"
          => calls[slot].existing = NULL /\ ActiveShiftIds(calls[slot].user) = {}

\* C19 witness: both users checked in, one after the other, and a further
\* checkIn was refused: each user owns exactly one active shift.
C19_Witness ==
    /\ \A u \in Users : Cardinality(ActiveShiftIds(u)) = 1
    /\ \E slot \in Slots :
          /\ calls[slot].op = "checkIn" /\ calls[slot].pc = "done"
          /\ calls[slot].res = "ActiveShiftExists" /\ calls[slot].writes = 0

\* C21: every answered checkOut update, whether or not the shift was checked
\* out before and whatever other checkOut of it is running, is the call's one
\* write: it overwrites end_time with the clock value that call read, leaves
\* the shift 'completed' and every other shift alone, and the call returns
\* that shift.
C21_LastCheckOutWins ==
    [][\A slot \in Slots :
          /\ calls[slot].op = "checkOut" /\ calls[slot].pc = "update"
          /\ calls'[slot].pc = "done" /\ calls'[slot].res = "ok"
          => LET id == calls[slot].id
             IN  /\ calls'[slot].data = id /\ calls'[slot].writes = 1
                 /\ Len(shifts') = Len(shifts)
                 /\ shifts'[id].end_time = calls[slot].time
                 /\ shifts'[id].status = "completed"
                 /\ shifts'[id].user_id = shifts[id].user_id
                 /\ shifts'[id].start_time = shifts[id].start_time
                 /\ \A j \in 1..Len(shifts) : j # id => shifts'[j] = shifts[j]
      ]_vars

\* C21 witness: two checkOut calls on the shift that started at instant 1
\* have both returned it; the first had written end time 1, and the stored
\* end time is 2, the one the later update wrote.
C21_Witness ==
    /\ \A slot \in Slots :
          /\ calls[slot].op = "checkOut" /\ calls[slot].pc = "done"
          /\ calls[slot].res = "ok" /\ calls[slot].data = 1
    /\ shifts[1].start_time = 1 /\ shifts[1].end_time = 2
    /\ shifts[1].status = "completed"
    /\ shifts[1].duration_minutes = JSNum(1)

\* C23: a completed shift never blocks a check-in.  When all of the user's
\* shifts are completed, the answer to checkIn's getActiveShift is "none" and the
\* call goes on to its insert (unless the storage reports a failure); and the
\* answered insert appends a new active shift of that user, which the call
\* returns, leaving the completed shifts as they were.
C23_CompletedNeverBlocks ==
    [][\A slot \in Slots :
          /\ /\ calls[slot].op = "checkIn" /\ calls[slot].pc = "getActiveShift"
             /\ calls'[slot] # calls[slot]
             /\ \A i \in 1..Len(shifts) :
                   shifts[i].user_id = calls[slot].user
                   => shifts[i].status = "completed"
             => \/ calls'[slot].failure \in StorageFailures
                \/ /\ calls'[slot].pc = "insert"
                   /\ calls'[slot].existing = NULL
          /\ /\ calls[slot].op = "checkIn" /\ calls[slot].pc = "insert"
             /\ calls'[slot].pc = "done" /\ calls'[slot].res = "ok"
             => /\ shifts' = Append(shifts, shifts'[Len(shifts')])
                /\ calls'[slot].data = Len(shifts')
                /\ shifts'[Len(shifts')].user_id = calls[slot].user
                /\ shifts'[Len(shifts')].status = "active"
      ]_vars

\* C23 witness: u1's first shift was checked out and is completed, and a
\* later checkIn of u1 read no active shift and returned a second shift,
\* which is active.
C23_Witness ==
    /\ Len(shifts) = 2
    /\ shifts[1].user_id = "u1" /\ shifts[1].status = "completed"
    /\ shifts[2].user_id = "u1" /\ shifts[2].status = "active"
    /\ shifts[2].start_time >= shifts[1].end_time
    /\ \E slot \in Slots :
          /\ calls[slot].op = "checkIn" /\ calls[slot].pc = "done"
          /\ calls[slot].res = "ok" /\ calls[slot].data = 2
          /\ calls[slot].existing = NULL

\* =========================================================================
\* Properties of the manual-log lifecycle (SpecLogs)
\* =========================================================================

\* C3: every row submitManualLog writes has status 'pending', whatever the
\* input object carries: a row that appears in manual_logs is pending.
C3_AlwaysPending ==
    [][\A i \in 1..Len(logs') : i > Len(logs) => logs'[i].status = "pending"]_vars

\* C3 witness: submitManualLog has returned the log of u1, whose input object
\* carried status 'approved', and the stored row is pending.
C3_Witness ==
    \E slot \in Slots :
        /\ calls[slot].op = "submitManualLog" /\ calls[slot].res = "ok"
        /\ logs[calls[slot].data].user_id = "u1"
        /\ logs[calls[slot].data].status = "pending"
        /\ \E in \in ManualLogInputs : in[1] = "u1" /\ in[2].status = "approved"

\* C4: a manual log changes status once, from 'pending'; once reviewed its
\* status, reviewed_by and reviewed_at never change again, and it is never
\* deleted.
C4_ReviewedOnce ==
    [][/\ Len(logs') >= Len(logs)
       /\ \A i \in 1..Len(logs) :
            logs[i].status # "pending" =>
                /\ logs'[i].status = logs[i].status
                /\ logs'[i].reviewed_by = logs[i].reviewed_by
                /\ logs'[i].reviewed_at = logs[i].reviewed_at
      ]_vars

\* C12: the answer to the update of approveLog(logId, adminId) or
\* rejectLog(logId, adminId) is the one write of the call: it leaves log
\* logId with status 'approved' (resp. 'rejected'), reviewed_by = adminId and
\* reviewed_at = the clock value the call read, which lies between the call's
\* start and its end, and with every other field as it was; no other log
\* changes, none is added or removed, and nothing else changes a stored log.
C12_ReviewFrame ==
    [][/\ \A slot \in Slots :
            /\ calls[slot].op \in {"approveLog", "rejectLog"}
            /\ calls[slot].pc = "update"
            /\ calls'[slot].pc = "done" /\ calls'[slot].res = "ok"
            => LET id == calls[slot].id
               IN  /\ calls'[slot].writes = 1 /\ calls'[slot].data = id
                   /\ Len(logs') = Len(logs)
                   /\ logs'[id].status =
                        (IF calls[slot].op = "approveLog" THEN "approved"
                                                          ELSE "rejected")
                   /\ logs'[id].reviewed_by = calls[slot].user
                   /\ logs'[id].reviewed_at = calls[slot].time
                   /\ calls[slot].time \in Instants /\ calls[slot].time <= now
                   /\ logs'[id].user_id = logs[id].user_id
                   /\ logs'[id].date = logs[id].date
                   /\ logs'[id].duration_minutes = logs[id].duration_minutes
                   /\ logs'[id].description = logs[id].description
                   /\ logs'[id].category = logs[id].category
                   /\ \A j \in 1..Len(logs) : j # id => logs'[j] = logs[j]
       /\ \A i \in 1..Len(logs) :
            i > Len(logs') \/ logs'[i] # logs[i]
            => \E slot \in Slots :
                  /\ calls[slot].op \in {"approveLog", "rejectLog"}
                  /\ calls[slot].id = i /\ calls[slot].pc = "update"
                  /\ calls'[slot].res = "ok"
      ]_vars

\* C12 witness: approveLog(1, 'admin-1'), called at instant 2, has returned
\* log 1, now approved by admin-1 at instant 2, and the other log is still
\* pending and unreviewed.
C12_Witness ==
    /\ Len(logs) = 2
    /\ \E slot \in Slots :
          /\ calls[slot].op = "approveLog" /\ calls[slot].res = "ok"
          /\ calls[slot].data = 1 /\ calls[slot].writes = 1
    /\ logs[1].status = "approved" /\ logs[1].reviewed_by = "admin-1"
    /\ logs[1].reviewed_at = 2 /\ logs[1].user_id = "u1"
    /\ logs[2].status = "pending" /\ logs[2].reviewed_by = "null"

\* C22: the answered update of approveLog or rejectLog on a log that was
\* already approved or rejected overwrites its status, reviewed_by and
\* reviewed_at with the call's own, whatever they were; so the status, the
\* reviewer and the review time of a reviewed log always come from one call,
\* the last one applied (admin-1 only approves and admin-2 only rejects here).
C22_LastReviewWins ==
    [][/\ \A slot \in Slots :
            /\ calls[slot].op \in {"approveLog", "rejectLog"}
            /\ calls[slot].pc = "update"
            /\ calls'[slot].pc = "done" /\ calls'[slot].res = "ok"
            /\ logs[calls[slot].id].status # "pending"
            => LET id == calls[slot].id
               IN  /\ logs'[id].status = ReviewStatus(calls[slot].op)
                   /\ logs'[id].reviewed_by = calls[slot].user
                   /\ logs'[id].reviewed_at = calls[slot].time
       /\ \A i \in 1..Len(logs') :
            /\ logs'[i].status = "approved" => logs'[i].reviewed_by \in Approvers
            /\ logs'[i].status = "rejected" => logs'[i].reviewed_by \in Rejecters
      ]_vars

\* C22 witness: approveLog and rejectLog of log 1 have both been applied and
\* have returned it; the rejection came last (at instant 2) and the log is
\* rejected, reviewed by admin-2 at instant 2.
C22_Witness ==
    /\ \E s1, s2 \in Slots :
          /\ calls[s1].op = "approveLog" /\ calls[s1].pc = "done"
          /\ calls[s1].res = "ok" /\ calls[s1].data = 1
          /\ calls[s2].op = "rejectLog" /\ calls[s2].pc = "done"
          /\ calls[s2].res = "ok" /\ calls[s2].data = 1
    /\ logs[1].status = "rejected" /\ logs[1].reviewed_by = "admin-2"
    /\ logs[1].reviewed_at = 2

\* =========================================================================
\* Properties of a student's own calls (SpecOwn)
\* =========================================================================

\* C26: as long as no approveLog is called, every snapshot calculateProgress
\* returns has approvedManualHours 0, and its totalHours and progressPercent
\* are those of the shift hours alone, whatever the student checked in and
\* out and whatever logs (status field included) they submitted.
C26_NoHoursWithoutApproval ==
    \A slot \in Slots :
        /\ calls[slot].op = "calculateProgress" /\ calls[slot].pc = "done"
        /\ calls[slot].res = "ok"
        => LET snapshot == calls[slot].snapshot
           IN  /\ snapshot.approvedManualHours = JSNum(0)
               /\ snapshot.totalHours = snapshot.shiftHours
               /\ snapshot.progressPercent =
                     ProgressPercent(snapshot.shiftHours, snapshot.goal)

\* C26 witness: the student worked a one-minute shift and submitted two logs
\* of 180 minutes, each with status 'approved' in its input; calculateProgress
\* returned two pending logs, no approved hours and 1/60 hour in total.
C26_Witness ==
    /\ Len(logs) = 2
    /\ \A i \in 1..2 : logs[i].duration_minutes = JSNum(180)
    /\ \E slot \in Slots :
          /\ calls[slot].op = "calculateProgress" /\ calls[slot].pc = "done"
          /\ calls[slot].res = "ok"
          /\ calls[slot].snapshot.pendingLogs = 2
          /\ calls[slot].snapshot.approvedManualHours = JSNum(0)
          /\ calls[slot].snapshot.totalHours = JSRat(1, 60)

\* =========================================================================
\* Properties of reviews on the progress snapshot (SpecReview)
\* =========================================================================

\* C27: the answered update of approveLog on a pending log of duration d
\* raises the owner's snapshot totalHours by d/60 and lowers its pendingLogs
\* by 1; that of rejectLog leaves totalHours as it was and lowers pendingLogs
\* by 1; in both cases shiftHours and every other user's snapshot are
\* unchanged, for every goal.
C27_ReviewOnSnapshot ==
    [][\A slot \in Slots :
          /\ calls[slot].op \in {"approveLog", "rejectLog"}
          /\ calls[slot].pc = "update"
          /\ calls'[slot].pc = "done" /\ calls'[slot].res = "ok"
          /\ logs[calls[slot].id].status = "pending"
          => LET d == logs[calls[slot].id].duration_minutes
             IN  \A g \in Goals, owner \in {logs[calls[slot].id].user_id} :
                    LET before == Snapshot(owner, g)
                        after == CalculateProgress(GetShifts(owner)',
                                     GetManualLogs(owner)', g)
                    IN  /\ after.pendingLogs = before.pendingLogs - 1
                        /\ after.shiftHours = before.shiftHours
                        /\ calls[slot].op = "approveLog" =>
                              after.totalHours =
                                 NumAdd(before.totalHours, NumDiv(d, 60))
                        /\ calls[slot].op = "rejectLog" =>
                              after.totalHours = before.totalHours
                        /\ \A u \in Users \ {owner} :
                              CalculateProgress(GetShifts(u)',
                                                GetManualLogs(u)', g)
                                 = Snapshot(u, g)
      ]_vars

\* C27 witness: u1's log of 180 minutes was approved and u2's log of 60
\* minutes rejected; u1, who worked one minute on shift, now gets 181/60
\* hours in total with no pending log, and u2 gets 0 hours with none pending.
C27_Witness ==
    /\ Len(logs) = 2
    /\ \E i, j \in 1..2 :
          /\ logs[i].user_id = "u1" /\ logs[i].status = "approved"
          /\ logs[j].user_id = "u2" /\ logs[j].status = "rejected"
    /\ Snapshot("u1", 150).totalHours = JSRat(181, 60)
    /\ Snapshot("u1", 150).shiftHours = JSRat(1, 60)
    /\ Snapshot("u1", 150).pendingLogs = 0
    /\ Snapshot("u2", 150).totalHours = JSNum(0)
    /\ Snapshot("u2", 150).pendingLogs = 0
    /\ \E slot \in Slots :
          calls[slot].op \in {"approveLog", "rejectLog"} /\ calls[slot].res = "ok"

\* =========================================================================
\* Properties of the calculateProgress call (SpecSnapshot)
\* =========================================================================

\* C10: once one of the two fetches of a calculateProgress call has failed,
\* the call has failed with a failed fetch's error and carries no snapshot,
\* whichever fetch answered first; a snapshot is only returned when both
\* fetches succeeded.
C10_NoPartialSnapshot ==
    \A slot \in Slots :
        calls[slot].op = "calculateProgress" =>
            /\ FailedFetches(calls[slot]) # {} =>
                  /\ calls[slot].pc = "done"
                  /\ calls[slot].res \in FailedFetches(calls[slot])
                  /\ calls[slot].snapshot = NoProgress
            /\ calls[slot].snapshot # NoProgress =>
                  calls[slot].getShifts = "ok" /\ calls[slot].getManualLogs = "ok"

\* C10 witness: getShifts answered first with rows, then getManualLogs failed,
\* and the call failed with that error and no snapshot.
C10_Witness ==
    \E slot \in Slots :
        /\ calls[slot].op = "calculateProgress" /\ calls[slot].pc = "done"
        /\ calls[slot].getShifts = "ok" /\ calls[slot].shiftRows # <<>>
        /\ calls[slot].getManualLogs = "NetworkError"
        /\ calls[slot].res = "NetworkError"
        /\ calls[slot].snapshot = NoProgress

\* =========================================================================
\* Properties of the reads (SpecReads)
\* =========================================================================

\* C11: a getShifts, getManualLogs or getAllPendingLogs call that succeeded
\* returned an array, never null or undefined, and returned the empty array
\* when the storage answered null, undefined or no rows.
C11_ReadsReturnArrays ==
    \A slot \in Slots :
        /\ calls[slot].op \in {"getShifts", "getManualLogs", "getAllPendingLogs"}
        /\ calls[slot].pc = "done"
        /\ calls[slot].raw # JSUndefined
        => /\ calls[slot].res = "ok"
           /\ calls[slot].ret.t = "array"
           /\ (calls[slot].raw.t \in {"null", "undefined"}
                  \/ calls[slot].raw.rows = <<>>)
                => calls[slot].ret.rows = <<>>

\* C11 witness: getShifts was answered null and getAllPendingLogs undefined,
\* while the storage holds rows, and both returned the empty array.
C11_Witness ==
    /\ shifts # <<>> /\ logs # <<>>
    /\ \E slot \in Slots :
          /\ calls[slot].op = "getShifts" /\ calls[slot].pc = "done"
          /\ calls[slot].raw = ResultNull /\ calls[slot].ret = JSArray(<<>>)
    /\ \E slot \in Slots :
          /\ calls[slot].op = "getAllPendingLogs" /\ calls[slot].pc = "done"
          /\ calls[slot].raw = ResultUndefined
          /\ calls[slot].ret = JSArray(<<>>)

\* =========================================================================
\* Properties of every operation (SpecOps)
\* =========================================================================

\* C14 (as stated): every error the storage or the request's timer reports to
\* a call, an abort included, is the error the call fails with.
C14_Verbatim ==
    \A slot \in Slots :
        calls[slot].failure # "-" /\ calls[slot].pc # "idle"
        => calls[slot].pc = "done" /\ calls[slot].res = calls[slot].failure

\* C14 (amended): a call to which a failure was reported has failed, without
\* having gone on or tried again: with that very error, unless the failure is
\* an AbortError (the request's timer fired), in whose place the caller gets
\* the error with the retry message.
C14_PropagatedOrRetryMessage ==
    \A slot \in Slots :
        calls[slot].failure # "-" /\ calls[slot].pc # "idle"
        => /\ calls[slot].pc = "done"
           /\ calls[slot].res # "ok"
           /\ calls[slot].failure # "AbortError"
                 => calls[slot].res = calls[slot].failure
           /\ calls[slot].failure = "AbortError"
                 => calls[slot].res = "RequestFailedRetry"

\* C14 witness: an approveLog whose update was aborted has failed with the
\* retry message, not with the AbortError, and the log is still pending.
C14_Witness ==
    \E slot \in Slots :
        /\ calls[slot].op = "approveLog" /\ calls[slot].pc = "done"
        /\ calls[slot].failure = "AbortError"
        /\ calls[slot].res = "RequestFailedRetry"
        /\ calls[slot].writes = 0
        /\ logs # <<>> /\ \A i \in 1..Len(logs) : logs[i].status = "pending"

\* C15: every ShiftLogic call that is awaiting the storage settles, even if
\* the storage never answers: the timer of each pending request aborts it,
\* and a call whose request was aborted has failed with the retry error.
C15_Terminates ==
    /\ \A slot \in Slots :
          (calls[slot].pc \notin {"idle", "done"}) ~> (calls[slot].pc = "done")
    /\ [](\A slot \in Slots :
            calls[slot].failure = "AbortError" /\ calls[slot].pc # "idle"
            => calls[slot].pc = "done" /\ calls[slot].res = "RequestFailedRetry")

\* C15 witness: a checkIn whose insert was aborted by its timer has failed
\* with the retry error and stored nothing.
C15_Witness ==
    \E slot \in Slots :
        /\ calls[slot].op = "checkIn" /\ calls[slot].pc = "done"
        /\ calls[slot].existing = NULL /\ calls[slot].failure = "AbortError"
        /\ calls[slot].res = "RequestFailedRetry" /\ calls[slot].writes = 0

\* =========================================================================
\* Properties of the App component (SpecApp)
\* =========================================================================

\* C16: the initial loading state ends, and once the safety timer has fired
\* loading is false for good, whatever auth events arrived and whatever
\* profile fetches are pending; when the timer fires with the load not yet
\* resolved, it leaves session, profile and error null (the sign-in screen).
C16_LoadingEnds ==
    /\ <>[](~app.loading)
    /\ [](app.safetyTimer = "fired" => ~app.loading)
    /\ [][app.safetyTimer = "armed" /\ app'.safetyTimer = "fired"
             /\ ~app.resolved
          => /\ ~app'.loading /\ app'.resolved
             /\ app'.session = "null" /\ app'.profile = "null"
             /\ app'.error = "null"]_vars

\* C16 witness: the timer has fired while the profile fetch of the initial
\* session was still pending and nothing had resolved the load: loading is
\* false, no session, no profile.
C16_Witness ==
    /\ app.safetyTimer = "fired" /\ ~app.loading
    /\ app.session = "null" /\ app.profile = "null"
    /\ \E h \in app.handlers :
          /\ h.event = "INITIAL_SESSION" /\ h.myVersion = app.fetchVersion
          /\ h.pc \in Awaiting

\* C24: when a listener invocation's profile fetch comes back (with a
\* profile or with an error) after a later auth event has been received, the
\* invocation returns without touching session, profile, error or loading:
\* only the invocation of the most recent event applies its fetch.
C24_StaleFetchDiscarded ==
    [][\A h \in app.handlers :
          /\ h.event \in {"INITIAL_SESSION", "SIGNED_IN"}
          /\ h.pc \in Awaiting
          /\ h.myVersion < app.fetchVersion
          /\ h \notin app'.handlers
          => /\ app'.session = app.session /\ app'.profile = app.profile
             /\ app'.error = app.error /\ app'.loading = app.loading
             /\ app'.resolved = app.resolved
      ]_vars

\* C24 witness: SIGNED_IN was followed by SIGNED_OUT while the profile fetch
\* was pending; the fetch then brought a profile, which was dropped: the App
\* is signed out, with no profile and no error.
C24_Witness ==
    /\ \E h \in app.handlers :
          /\ h.event = "SIGNED_IN" /\ h.pc = "stale" /\ h.prof \in Profiles
          /\ h.myVersion < app.fetchVersion
    /\ \E g \in app.handlers : g.event = "SIGNED_OUT" /\ g.myVersion = app.fetchVersion
    /\ app.session = "null" /\ app.profile = "null" /\ app.error = "null"

\* C25: when the profile fetch of a SIGNED_IN invocation brings a profile,
\* and the auth events received since that SIGNED_IN (if any) are all
\* TOKEN_REFRESHED, the App has that session and that profile, no error,
\* loading false, and renders the Dashboard (student) or the AdminPanel
\* (admin).
C25_SignedInShown ==
    [][\A h \in app'.handlers \ app.handlers :
          /\ h.event = "SIGNED_IN" /\ h.prof \in Profiles
          /\ \A g \in app.handlers :
                g.myVersion > h.myVersion => g.event = "TOKEN_REFRESHED"
          => /\ app'.session = h.session /\ app'.profile = h.prof
             /\ app'.error = "null" /\ ~app'.loading
             /\ Route(app') = (IF Role(h.prof) = "admin" THEN "AdminPanel"
                                                         ELSE "Dashboard")
      ]_vars

\* =========================================================================
\* Properties of the App component's logout (SpecLogout)
\* =========================================================================

\* C28: once handleLogout has completed and no new sign-in takes place,
\* session and profile are null, whatever was still awaited (a
\* recheckSession call, a listener's profile fetch) when the user logged out.
C28_StaysLoggedOut ==
    LoggedOut => app.session = "null" /\ app.profile = "null"

\* =========================================================================
\* Properties of the Dashboard component (SpecClock, SpecManual)
\* =========================================================================

\* The handleCheckIn invocations that await ShiftLogic.checkIn in d.
CheckInsAwaited(d) == {h \in d.awaiting : h.name = "handleCheckIn"}

\* C17: every description the Dashboard hands to ShiftLogic.checkIn is the
\* trimmed text of the input and is not empty; when the trimmed text is empty
\* no check-in is dispatched, and a step that shows the description-required
\* toast dispatches nothing and leaves busy as it was.
C17_TrimmedDescription ==
    [][/\ \A h \in CheckInsAwaited(dash') \ CheckInsAwaited(dash) :
             LET sent == calls'[h.slot].desc
             IN  /\ calls'[h.slot].op = "checkIn"
                 /\ sent # ""
                 /\ sent = AsString(Trim(dash.desc))
                 /\ Head(Trim(dash.desc)) # " "
                 /\ Trim(dash.desc)[Len(Trim(dash.desc))] # " "
       /\ Trim(dash.desc) = <<>> => CheckInsAwaited(dash') \subseteq CheckInsAwaited(dash)
       /\ dash'.toast = "DescriptionRequired" /\ dash.toast # dash'.toast
          => /\ dash'.awaiting = dash.awaiting /\ calls' = calls
             /\ dash'.busy = dash.busy
      ]_vars

\* C17 witness: the input holds " a " and ShiftLogic.checkIn is being awaited
\* with the description "a".
C17_Witness ==
    /\ dash.desc = <<" ", "a", " ">>
    /\ dash.busy
    /\ \E h \in CheckInsAwaited(dash) :
          /\ calls[h.slot].op = "checkIn" /\ calls[h.slot].pc = "getActiveShift"
          /\ calls[h.slot].desc = "a"

\* C18 (as stated): every call of ShiftLogic.submitManualLog the Dashboard
\* dispatches carries totalMins = hours * 60 + minutes with totalMins > 0 and
\* a non-empty trimmed description.
C18_ValidManualLog ==
    [][\A h \in dash'.awaiting \ dash.awaiting :
          h.pc = "submitManualLog"
          => LET sent == calls'[h.slot].body
                 totalMins == TotalMins(dash.manualForm)
             IN  /\ totalMins.t = "number" /\ totalMins.num > 0
                 /\ sent.duration_minutes = totalMins
                 /\ sent.description # ""
                 /\ sent.description = AsString(Trim(dash.manualForm.description))
      ]_vars

\* C20 (as stated): the Dashboard awaits at most one ShiftLogic.checkIn at a
\* time.
C20_OneCheckInAtATime ==
    Cardinality(CheckInsAwaited(dash)) <= 1

\* =========================================================================
\* Properties of the Dashboard with its timers (SpecPage)
\* =========================================================================
HandlerRuns(slot) == \E h \in dash.awaiting : h.slot = slot

\* C29 (as stated, in the case it singles out): when the storage holds an
\* active shift of the signed-in student, no Dashboard action is in flight
\* and the last thing shown is the refusal of a check-in because an active
\* shift exists, the Dashboard shows that shift as active, so that it can be
\* checked out.
C29_ShowsStoredShift ==
    /\ ActiveShiftIds(ProfileId) # {} /\ dash.awaiting = {}
    /\ dash.toast = "ActiveShiftExists"
    => /\ dash.activeShift = "shift"
       /\ dash.activeShiftId \in ActiveShiftIds(ProfileId)

Computed == progress # NoProgress

\* What a duration is worth according to the data model, in tenths of a
\* minute: a number or numeric string counts with its value, null, undefined
\* and NaN are not usable.
UsableTenths(d) ==
    CASE d.t = "number" -> 10 * d.num
      [] d = JSStr(<<"9", "0">>) -> 900
      [] d = JSStr(<<"1", ".", "5">>) -> 15
      [] d = JSStr(<<"0">>) -> 0
      [] OTHER -> 0

RECURSIVE SumTenths(_, _)
SumTenths(rows, status) ==
    IF rows = <<>> THEN 0
    ELSE (IF Head(rows).status = status
          THEN UsableTenths(Head(rows).duration_minutes) ELSE 0)
         + SumTenths(Tail(rows), status)

\* v is the number tenths / 600 (tenths of a minute, as hours).
IsHours(v, tenths) == v.t = "number" /\ v.num * 600 = tenths * v.den

\* C6: shiftHours is the sum of the usable durations of the completed shifts,
\* divided by 60, numeric strings read as numbers; active shifts and
\* null/undefined/zero/NaN durations add nothing.
C6_ShiftHours ==
    Computed => IsHours(progress.shiftHours, SumTenths(fetched.shifts, "completed"))

\* C6 witness: a computed snapshot over a numeric-string duration, a null one
\* and an active shift, with a non-zero shiftHours.
C6_Witness ==
    /\ Computed
    /\ \E i \in 1..Len(fetched.shifts) :
          fetched.shifts[i].status = "completed"
          /\ fetched.shifts[i].duration_minutes = JSStr(<<"1", ".", "5">>)
    /\ \E i \in 1..Len(fetched.shifts) :
          fetched.shifts[i].status = "completed"
          /\ fetched.shifts[i].duration_minutes = JSNull
    /\ \E i \in 1..Len(fetched.shifts) :
          fetched.shifts[i].status = "active"
          /\ fetched.shifts[i].duration_minutes = JSNum(120)
    /\ IsHours(progress.shiftHours, 15)

\* C7: approvedManualHours is the sum of the durations of the approved logs,
\* divided by 60; pending and rejected logs add nothing.
C7_ApprovedManualHours ==
    Computed =>
        IsHours(progress.approvedManualHours, SumTenths(fetched.logs, "approved"))

\* C7 witness: a computed snapshot over an approved, a pending and a rejected
\* log, where only the approved 60 minutes count.
C7_Witness ==
    /\ Computed
    /\ \E i, j, k \in 1..Len(fetched.logs) :
          /\ fetched.logs[i] = [status |-> "approved", duration_minutes |-> JSNum(60)]
          /\ fetched.logs[j] = [status |-> "pending", duration_minutes |-> JSNum(90)]
          /\ fetched.logs[k] = [status |-> "rejected", duration_minutes |-> JSNum(90)]
    /\ IsHours(progress.approvedManualHours, 600)

\* C8: progressPercent is 100 when totalHours >= goal and totalHours/goal*100
\* otherwise, so it never exceeds 100; totalHours itself is the uncapped sum
\* of shift minutes and approved minutes over 60.
C8_ProgressCapped ==
    Computed =>
        LET th == progress.totalHours
            pp == progress.progressPercent
            g == progress.goal
        IN  /\ IsHours(th, SumTenths(fetched.shifts, "completed")
                           + SumTenths(fetched.logs, "approved"))
            /\ pp.t = "number"
            /\ NumLE(pp, JSNum(100))
            /\ IF NumLE(JSNum(g), th)
               THEN NumEq(pp, JSNum(100))
               ELSE pp.num * th.den * g = th.num * 100 * pp.den

\* C8 witness: totalHours above the goal with progressPercent at 100.
C8_Witness ==
    /\ Computed
    /\ ~NumLE(progress.totalHours, JSNum(progress.goal))
    /\ NumEq(progress.progressPercent, JSNum(100))

\* The record sets the computed snapshot is compared with: every pair of at
\* most one shift row and at most one log row.
ProbeInputs ==
    {[shifts |-> s, logs |-> l] :
        s \in {<<>>} \cup {<<r>> : r \in FetchedShiftRows},
        l \in {<<>>} \cup {<<r>> : r \in FetchedLogRows}}

\* C9: for a fixed goal progressPercent is monotonically non-decreasing in
\* totalHours: of two record sets, the one with the smaller or equal
\* totalHours has the smaller or equal progressPercent.
C9_Monotone ==
    Computed =>
        \A in \in ProbeInputs :
            LET other == CalculateProgress(in.shifts, in.logs, fetched.goal)
            IN  /\ NumLE(progress.totalHours, other.totalHours)
                      => NumLE(progress.progressPercent, other.progressPercent)
                /\ NumLE(other.totalHours, progress.totalHours)
                      => NumLE(other.progressPercent, progress.progressPercent)

\* C9 witness: two record sets, one below the goal and one above it, with
\* strictly growing totalHours and progressPercent.
C9_Witness ==
    /\ Computed
    /\ \E in \in ProbeInputs :
          LET other == CalculateProgress(in.shifts, in.logs, fetched.goal)
          IN  /\ ~NumLE(other.totalHours, progress.totalHours)
              /\ ~NumLE(other.progressPercent, progress.progressPercent)
              /\ ~NumLE(other.totalHours, JSNum(fetched.goal))
              /\ ~NumLE(progress.totalHours, JSNum(0))

====
